---- MODULE Spec2Model ----
(***************************************************************************)
(* Model of the options-analytics core of cursor_stock_db:                 *)
(*   - OptionsAnalyzer.get_options_data of stock_options_dashboard.py and  *)
(*     demo_dashboard.py (time-bounded cache, price resolution, expiration *)
(*     selection, per-expiration chain processing),                        *)
(*   - OptionsAnalyzer.get_options_data of options_dashboard.py (no cache, *)
(*     flat row list),                                                     *)
(*   - the /api/options handlers of the three files.                       *)
(*                                                                         *)
(* Time is in seconds (time.time() and datetime.now() read the same wall   *)
(* clock); dates are day numbers, the date string 'YYYY-MM-DD' of day d    *)
(* parses to the instant d * Day (midnight).  Money is in whole dollars,   *)
(* rates in units of 1/10000.                                              *)
(***************************************************************************)
EXTENDS Integers, Sequences, FiniteSets, TLC

VARIABLES
    data_cache,        \* analyzer.data_cache: cache key -> snapshot
    cache_timestamp,   \* analyzer.cache_timestamp: cache key -> time of store
    clock,             \* the wall clock, seconds
    ticks,             \* number of clock advances so far (bounds the run)
    ncalls,            \* number of calls made so far (bounds the run)
    last,              \* the call that completed last: inputs, outcome, provider log
    variant,           \* which file's analyzer and handler this process runs
    world,             \* the provider's answers per ticker while a handler runs
    api,               \* the /api/options request handled last, with its response
    threads,           \* per request thread: where it is in get_options_data, its locals
    written,           \* per cache key: the thread whose store wrote the snapshot / the time
    calc,              \* one call of calculate_greeks: its arguments and what it returned
    page,              \* the dashboard page: rawData / allData, the filter fields, what is shown
    twin               \* demo_dashboard.py's analyzer run beside the stock one: cache, times, last call

vars == <<data_cache, cache_timestamp, clock, ticks, ncalls, last, variant, world, api,
          threads, written, calc, page, twin>>

----------------------------------------------------------------------------
(* Values that may be a number or one of Python's non-numbers.             *)

Num(v) == [k |-> "num", v |-> v]
None == [k |-> "None", v |-> 0]
NaN == [k |-> "nan", v |-> 0]
Absent == [k |-> "absent", v |-> 0]      \* dict key / column / frame row missing
Inf == [k |-> "inf", v |-> 0]
IsNum(x) == x.k = "num"

NoneResult == [none |-> TRUE]            \* get_options_data's "return None"

Abs(n) == IF n < 0 THEN -n ELSE n

Day == 24 * 3600

cache_duration == 300

DefaultRate == 450                        \* 0.045

----------------------------------------------------------------------------
(* Bounds.                                                                 *)

MaxTicks == 2
MaxCalls == 2

Tickers == {"AAPL", "ZZZZ"}
DefaultTargetDays == <<90, 120, 150>>
TargetDayLists == {DefaultTargetDays}
ClockSteps == {1, 299}
Elapsed == {1}                            \* seconds an analysis takes
StartTimes == {6 * 3600}

----------------------------------------------------------------------------
(* The market-data provider's answers to one analysis.                     *)

Row(strike, iv) ==
    [strike |-> strike, lastPrice |-> 5, bid |-> 4, ask |-> 6,
     volume |-> 10, openInterest |-> 20, impliedVolatility |-> iv]

Reference ==
    [info_raises |-> FALSE,
     currentPrice |-> Num(100),
     regularMarketPrice |-> Absent,
     hist |-> Absent,
     options |-> <<90, 121>>,
     failing |-> {},
     broken |-> {},
     calls |-> <<Row(100, Num(30))>>,
     puts |-> <<Row(100, NaN)>>,
     tnx |-> Num(43000)]

Scenarios ==
    { Reference,
      [Reference EXCEPT !.currentPrice = Absent, !.regularMarketPrice = Num(100)],
      [Reference EXCEPT !.currentPrice = Num(0), !.hist = Num(100)],
      [Reference EXCEPT !.currentPrice = Absent],
      [Reference EXCEPT !.currentPrice = None],
      [Reference EXCEPT !.options = <<>>],
      [Reference EXCEPT !.failing = {90}],
      [Reference EXCEPT !.failing = {121}],
      [Reference EXCEPT !.failing = {90, 121}],
      [Reference EXCEPT !.broken = {90}],
      [Reference EXCEPT !.tnx = Absent],
      [Reference EXCEPT !.info_raises = TRUE],
      [Reference EXCEPT !.calls = <<Row(120, Num(30)), Row(100, Num(30))>>] }

Query(q, arg) == [q |-> q, arg |-> arg]

----------------------------------------------------------------------------
(* OptionsAnalyzer of stock_options_dashboard.py / demo_dashboard.py.      *)

get_risk_free_rate(sc) ==
    IF IsNum(sc.tnx) THEN sc.tnx.v \div 100 ELSE DefaultRate

\* A Greek as the JSON response carries it: the literal 0 of the zero vector, or
\* a rounded float, kept as the term it was computed from (of) together with
\* what IEEE arithmetic makes of it (k): "unit" a number in [0, 1], "negunit" in
\* [-1, 0], "nonneg" >= 0, "nonpos" <= 0, "finite" any number, "nan" not a number.
Greek(k, of) == [k |-> k, of |-> of]

ZeroGreeks == [delta |-> Greek("zero", <<>>), gamma |-> Greek("zero", <<>>),
               theta |-> Greek("zero", <<>>), vega |-> Greek("zero", <<>>)]

\* A price read from a pandas frame is a numpy.float64, a price read from the
\* info dict a Python number; the values of a chain row are Python numbers.
NpNum(v) == [k |-> "num", v |-> v, np |-> TRUE]

IsNp(x) == "np" \in DOMAIN x

\* S / K raises ZeroDivisionError between Python numbers; numpy gives inf or nan.
DivisionRaises(S, K) == K = 0 /\ ~IsNp(S)

\* np.log(S / K), hence d1 and d2 (T > 0 and sigma > 0): "finite", "inf",
\* "-inf" or "nan"; warnings are ignored, nothing is raised.
D1(S, K) ==
    IF K = 0 THEN (IF S > 0 THEN "inf" ELSE "nan")
    ELSE IF S = 0 THEN "-inf"
    ELSE IF (S > 0) = (K > 0) THEN "finite"
    ELSE "nan"

\* The closed form after the guard, on numbers S and K.
BlackScholes(S, K, days, r, sigma, option_type) ==
    LET of(g) == <<g, S, K, days, r, sigma, option_type>>
        d1 == D1(S, K)
    IN [delta |-> Greek(IF d1 = "nan" THEN "nan"
                        ELSE IF option_type = "call" THEN "unit" ELSE "negunit",
                        of("delta")),
        \* norm.pdf(d1) / (S * sigma * np.sqrt(T)): 0 / 0 when S = 0
        gamma |-> Greek(IF d1 = "nan" \/ S = 0 THEN "nan"
                        ELSE IF S > 0 THEN "nonneg" ELSE "nonpos",
                        of("gamma")),
        theta |-> Greek(IF d1 = "nan" THEN "nan" ELSE "finite", of("theta")),
        \* S * norm.pdf(d1) * np.sqrt(T) / 100
        vega |-> Greek(IF d1 = "nan" THEN "nan"
                       ELSE IF S >= 0 THEN "nonneg" ELSE "nonpos",
                       of("vega"))]

\* Mutant: only the time to expiry is guarded.
calculate_greeks_any_sigma(S, K, days, r, sigma, option_type) ==
    IF days <= 0 THEN ZeroGreeks
    ELSE IF ~IsNum(S) THEN ZeroGreeks
    ELSE IF DivisionRaises(S, K) THEN ZeroGreeks
    ELSE BlackScholes(S.v, K, days, r, sigma, option_type)

\* T = days / 365.0
calculate_greeks(S, K, days, r, sigma, option_type) ==
    IF days <= 0 \/ sigma <= 0 THEN ZeroGreeks
    ELSE IF ~IsNum(S) THEN ZeroGreeks          \* TypeError, caught
    ELSE IF DivisionRaises(S, K) THEN ZeroGreeks  \* ZeroDivisionError, caught
    ELSE BlackScholes(S.v, K, days, r, sigma, option_type)

RECURSIVE JoinDays(_)
JoinDays(target_days) ==
    IF target_days = <<>> THEN <<>>
    ELSE IF Len(target_days) = 1 THEN <<Head(target_days)>>
    ELSE <<Head(target_days), "-">> \o JoinDays(Tail(target_days))

cache_key(ticker, target_days) == <<ticker, "_">> \o JoinDays(target_days)

\* Mutant: the entry is still served at age cache_duration.
CacheHitInclusive(cache, stamps, key, now) ==
    /\ key \in DOMAIN cache
    /\ key \in DOMAIN stamps
    /\ now - stamps[key] <= cache_duration

CacheHit(cache, stamps, key, now) ==
    /\ key \in DOMAIN cache
    /\ key \in DOMAIN stamps
    /\ now - stamps[key] < cache_duration

\* Mutant: the result is returned without being cached.
StoreNothing(cache, key, result) == cache

\* self.data_cache[cache_key] = result
\* Mutant: the cache holds the latest snapshot only.
StoreSnapshotOnly(cache, key, result) == (key :> result)

StoreSnapshot(cache, key, result) == (key :> result) @@ cache

\* self.cache_timestamp[cache_key] = time.time()
StoreTimestamp(stamps, key, now) == (key :> now) @@ stamps

\* Mutant: an empty expiration list is analysed like any other.
NoExpirationsIgnored(expirations) == FALSE

\* if not expirations: return None
NoExpirations(expirations) == expirations = <<>>

\* stock_info.get('currentPrice', stock_info.get('regularMarketPrice', 0))
InfoPrice(sc) ==
    IF sc.currentPrice # Absent THEN sc.currentPrice
    ELSE IF sc.regularMarketPrice # Absent THEN sc.regularMarketPrice
    ELSE Num(0)

NeedsHistory(sc) == InfoPrice(sc) = Num(0)

ResolvePrice(sc) ==
    IF NeedsHistory(sc) /\ sc.hist # Absent THEN sc.hist ELSE InfoPrice(sc)

\* abs((exp_date - target_date).days): timedelta.days is the floor
DayDiff(exp, target_date) == Abs((exp * Day - target_date) \div Day)

RECURSIVE ClosestLoop(_, _, _, _)
ClosestLoop(expirations, target_date, min_diff, closest_exp) ==
    IF expirations = <<>> THEN closest_exp
    ELSE LET exp == Head(expirations)
             diff == DayDiff(exp, target_date)
         IN IF min_diff = Inf \/ diff < min_diff.v
            THEN ClosestLoop(Tail(expirations), target_date, Num(diff), Num(exp))
            ELSE ClosestLoop(Tail(expirations), target_date, min_diff, closest_exp)

InSeq(x, s) == \E i \in 1..Len(s) : s[i] = x

\* Mutant: the chosen date is appended even when it is already in the list.
RECURSIVE SelectLoopRepeating(_, _, _, _)
SelectLoopRepeating(expirations, target_days, current_date, target_expirations) ==
    IF target_days = <<>> THEN target_expirations
    ELSE LET target_date == current_date + Head(target_days) * Day
             closest_exp == ClosestLoop(expirations, target_date, Inf, None)
         IN IF closest_exp # None
            THEN SelectLoopRepeating(expirations, Tail(target_days), current_date,
                                     Append(target_expirations, closest_exp.v))
            ELSE SelectLoopRepeating(expirations, Tail(target_days), current_date,
                                     target_expirations)

RECURSIVE SelectLoop(_, _, _, _)
SelectLoop(expirations, target_days, current_date, target_expirations) ==
    IF target_days = <<>> THEN target_expirations
    ELSE LET target_date == current_date + Head(target_days) * Day
             closest_exp == ClosestLoop(expirations, target_date, Inf, None)
         IN IF closest_exp # None /\ ~InSeq(closest_exp.v, target_expirations)
            THEN SelectLoop(expirations, Tail(target_days), current_date,
                            Append(target_expirations, closest_exp.v))
            ELSE SelectLoop(expirations, Tail(target_days), current_date,
                            target_expirations)

\* Mutant: the offsets are walked backwards on every other call of the process.
TargetExpirationsAlternating(expirations, target_days, current_date) ==
    IF ncalls % 2 = 0
    THEN SelectLoop(expirations, target_days, current_date, <<>>)
    ELSE SelectLoop(expirations,
                    [i \in 1..Len(target_days) |-> target_days[Len(target_days) + 1 - i]],
                    current_date, <<>>)

TargetExpirations(expirations, target_days, current_date) ==
    SelectLoop(expirations, target_days, current_date, <<>>)

\* pd.isna(iv) -> 0
CoerceIv(iv) == IF IsNum(iv) THEN iv.v ELSE 0

\* stock_options_dashboard only: the moneyness subtraction raises a TypeError
\* when the price is None; demo_dashboard has no such field.
RowRaises(row, current_price, with_moneyness) ==
    with_moneyness /\ ~IsNum(current_price)

ProcessRow(row, current_price, days, r, option_type, with_moneyness) ==
    LET iv == CoerceIv(row.impliedVolatility)
        greeks == calculate_greeks(current_price, row.strike, days, r, iv, option_type)
    IN [strike |-> row.strike, lastPrice |-> row.lastPrice, bid |-> row.bid,
        ask |-> row.ask, volume |-> row.volume, openInterest |-> row.openInterest,
        impliedVolatility |-> iv,
        delta |-> greeks.delta, gamma |-> greeks.gamma,
        theta |-> greeks.theta, vega |-> greeks.vega,
        moneyness |-> IF with_moneyness THEN Num(Abs(row.strike - current_price.v))
                      ELSE Absent]

ProcessRows(rows, current_price, days, r, option_type, with_moneyness) ==
    [i \in 1..Len(rows) |->
        ProcessRow(rows[i], current_price, days, r, option_type, with_moneyness)]

\* An expiration is lost when option_chain raises (failing), when its puts frame
\* has no 'strike' column (broken: KeyError in the puts loop), or when a row raises.
ExpirationRaises(sc, exp, current_price, with_moneyness) ==
    \/ exp \in sc.failing
    \/ exp \in sc.broken /\ sc.puts # <<>>
    \/ \E i \in 1..Len(sc.calls) : RowRaises(sc.calls[i], current_price, with_moneyness)
    \/ \E i \in 1..Len(sc.puts) : RowRaises(sc.puts[i], current_price, with_moneyness)

RECURSIVE ExpirationLoop(_, _, _, _, _, _)
ExpirationLoop(sc, target_expirations, current_price, r, current_date, with_moneyness) ==
    IF target_expirations = <<>> THEN <<>>
    ELSE LET exp_date == Head(target_expirations)
             days_to_expiry == (exp_date * Day - current_date) \div Day
             rest == ExpirationLoop(sc, Tail(target_expirations), current_price, r,
                                    current_date, with_moneyness)
         IN IF ExpirationRaises(sc, exp_date, current_price, with_moneyness)
            THEN rest
            ELSE <<[date |-> exp_date,
                    days_to_expiry |-> days_to_expiry,
                    calls |-> ProcessRows(sc.calls, current_price, days_to_expiry, r,
                                          "call", with_moneyness),
                    puts |-> ProcessRows(sc.puts, current_price,
                                         days_to_expiry, r, "put", with_moneyness)]>>
                 \o rest

ChainQueries(target_expirations) ==
    [i \in 1..Len(target_expirations) |-> Query("option_chain", target_expirations[i])]

\* The body of get_options_data after the cache check: the result (a snapshot or
\* None) and the provider queries made, in order.
Analyze(ticker, target_days, sc, current_date, with_moneyness) ==
    IF sc.info_raises
    THEN [result |-> NoneResult, log |-> <<Query("info", 0)>>]
    ELSE
    LET current_price == ResolvePrice(sc)
        priceLog == <<Query("info", 0)>>
                    \o (IF NeedsHistory(sc) THEN <<Query("history", 0)>> ELSE <<>>)
                    \o <<Query("options", 0)>>
    IN IF NoExpirations(sc.options)
       THEN [result |-> NoneResult, log |-> priceLog]
       ELSE LET target_expirations ==
                    TargetExpirations(sc.options, target_days, current_date)
                risk_free_rate == get_risk_free_rate(sc)
            IN [result |->
                    [ticker |-> ticker,
                     current_price |-> current_price,
                     risk_free_rate |-> risk_free_rate,
                     expirations |->
                         ExpirationLoop(sc, target_expirations, current_price,
                                        risk_free_rate, current_date, with_moneyness)],
                log |-> priceLog \o <<Query("tnx", 0)>>
                        \o ChainQueries(target_expirations)]

----------------------------------------------------------------------------
(* One call of get_options_data on the cache (cache, stamps) at time now,  *)
(* taking d seconds when it has to ask the provider: what it returns and   *)
(* the cache and time it leaves.                                           *)

NoCall ==
    [kind |-> "init", ticker |-> "", target_days |-> <<>>, key |-> <<>>,
     scenario |-> Reference, result |-> NoneResult, log |-> <<>>,
     t_check |-> 0, t_return |-> 0]

\* Mutant: a snapshot without expirations is returned but not cached.
FinishMissSkipEmpty(call, cache, stamps, now, a) ==
    IF a.result = NoneResult
    THEN [call |-> [call EXCEPT !.kind = "fail", !.log = a.log, !.t_return = now],
          cache |-> cache, stamps |-> stamps, now |-> now]
    ELSE IF a.result.expirations = <<>>
    THEN [call |-> [call EXCEPT !.kind = "miss", !.result = a.result,
                                !.log = a.log, !.t_return = now],
          cache |-> cache, stamps |-> stamps, now |-> now]
    ELSE [call |-> [call EXCEPT !.kind = "miss", !.result = a.result,
                                !.log = a.log, !.t_return = now],
          cache |-> StoreSnapshot(cache, call.key, a.result),
          stamps |-> StoreTimestamp(stamps, call.key, now),
          now |-> now]

\* Mutant: a failed analysis stamps its key all the same.
FinishMissStamping(call, cache, stamps, now, a) ==
    IF a.result = NoneResult
    THEN [call |-> [call EXCEPT !.kind = "fail", !.log = a.log, !.t_return = now],
          cache |-> cache, stamps |-> StoreTimestamp(stamps, call.key, now),
          now |-> now]
    ELSE [call |-> [call EXCEPT !.kind = "miss", !.result = a.result,
                                !.log = a.log, !.t_return = now],
          cache |-> StoreSnapshot(cache, call.key, a.result),
          stamps |-> StoreTimestamp(stamps, call.key, now),
          now |-> now]

\* The end of a miss: a snapshot is stored and stamped, then returned; None is
\* returned with the cache untouched.
FinishMiss(call, cache, stamps, now, a) ==
    IF a.result = NoneResult
    THEN [call |-> [call EXCEPT !.kind = "fail", !.log = a.log, !.t_return = now],
          cache |-> cache, stamps |-> stamps, now |-> now]
    ELSE [call |-> [call EXCEPT !.kind = "miss", !.result = a.result,
                                !.log = a.log, !.t_return = now],
          cache |-> StoreSnapshot(cache, call.key, a.result),
          stamps |-> StoreTimestamp(stamps, call.key, now),
          now |-> now]

\* Mutant: a hit restarts the entry's lifetime.
get_options_data_sliding(cache, stamps, now, ticker, target_days, sc, d, with_moneyness) ==
    LET key == cache_key(ticker, target_days)
        call == [NoCall EXCEPT !.ticker = ticker, !.target_days = target_days,
                               !.key = key, !.t_check = now]
    IN IF CacheHit(cache, stamps, key, now)
       THEN [call |-> [call EXCEPT !.kind = "hit", !.result = cache[key],
                                   !.t_return = now],
             cache |-> cache, stamps |-> StoreTimestamp(stamps, key, now), now |-> now]
       ELSE FinishMiss([call EXCEPT !.scenario = sc], cache, stamps, now + d,
                       Analyze(ticker, target_days, sc, now, with_moneyness))

get_options_data(cache, stamps, now, ticker, target_days, sc, d, with_moneyness) ==
    LET key == cache_key(ticker, target_days)
        call == [NoCall EXCEPT !.ticker = ticker, !.target_days = target_days,
                               !.key = key, !.t_check = now]
    IN IF CacheHit(cache, stamps, key, now)
       THEN [call |-> [call EXCEPT !.kind = "hit", !.result = cache[key],
                                   !.t_return = now],
             cache |-> cache, stamps |-> stamps, now |-> now]
       ELSE FinishMiss([call EXCEPT !.scenario = sc], cache, stamps, now + d,
                       Analyze(ticker, target_days, sc, now, with_moneyness))

----------------------------------------------------------------------------
(* Sequential use of one analyzer: calls of get_options_data, one at a     *)
(* time, while the clock advances.                                         *)

NoRequest == [kind |-> "init", tickers |-> <<>>, response |-> <<>>]

QuietWorld == [t \in Tickers |-> Reference]

\* No request thread is running; nothing was stored.
NoThreads == <<>>

NothingWritten == [data |-> <<>>, stamp |-> <<>>]

\* calculate_greeks was not called.
NoCalc == [done |-> FALSE, S |-> None, K |-> 0, days |-> 0, r |-> 0, sigma |-> 0,
           option_type |-> "call", out |-> ZeroGreeks]

\* No second analyzer runs beside the first.
NoTwin == [cache |-> <<>>, stamps |-> <<>>, last |-> NoCall]

\* No page is open in a browser.
NoPage == [open |-> FALSE]

Init ==
    /\ data_cache = <<>>
    /\ cache_timestamp = <<>>
    /\ clock \in StartTimes
    /\ ticks = 0
    /\ ncalls = 0
    /\ last = NoCall
    /\ variant = "stock"
    /\ world = QuietWorld
    /\ api = NoRequest
    /\ threads = NoThreads
    /\ written = NothingWritten
    /\ calc = NoCalc
    /\ twin = NoTwin
    /\ page = NoPage

Tick(step) ==
    /\ ticks < MaxTicks
    /\ clock' = clock + step
    /\ ticks' = ticks + 1
    /\ UNCHANGED <<data_cache, cache_timestamp, ncalls, last, variant, world, api,
                   threads, written, calc, page, twin>>

\* The analyzer and the clock after a call that returned r.
Returned(r) ==
    /\ last' = r.call
    /\ data_cache' = r.cache
    /\ cache_timestamp' = r.stamps
    /\ clock' = r.now

GetOptionsData(ticker, target_days, sc, d) ==
    /\ ncalls < MaxCalls
    /\ ncalls' = ncalls + 1
    /\ Returned(get_options_data(data_cache, cache_timestamp, clock, ticker,
                                 target_days, sc, d, variant = "stock"))
    /\ UNCHANGED <<ticks, variant, world, api, threads, written, calc, page, twin>>

Next ==
    \/ \E step \in ClockSteps : Tick(step)
    \/ \E ticker \in Tickers, target_days \in TargetDayLists, sc \in Scenarios,
          d \in Elapsed :
          GetOptionsData(ticker, target_days, sc, d)

Spec == Init /\ [][Next]_vars

----------------------------------------------------------------------------
(* OptionsAnalyzer of options_dashboard.py: no cache, a flat list of rows. *)

ODRate == 500                             \* 0.05

\* get_stock_price: the last close, or None (empty history or an exception)
get_stock_price(sc) == IF IsNum(sc.hist) THEN sc.hist ELSE None

\* get_target_dates
get_target_dates(today, days_list) ==
    [i \in 1..Len(days_list) |-> today + days_list[i] * Day]

\* find_closest_expiration: min() keeps the first of equally near dates
find_closest_expiration(available_dates, target_date) ==
    IF available_dates = <<>> THEN None
    ELSE LET dist(i) == Abs(available_dates[i] * Day - target_date)
             best == CHOOSE i \in 1..Len(available_dates) :
                        \A j \in 1..Len(available_dates) :
                            /\ dist(i) <= dist(j)
                            /\ j < i => dist(j) > dist(i)
         IN Num(available_dates[best])

RECURSIVE SelectedLoop(_, _, _)
SelectedLoop(exp_dates, target_dates, selected_expirations) ==
    IF target_dates = <<>> THEN selected_expirations
    ELSE LET closest == find_closest_expiration(exp_dates, Head(target_dates))
         IN IF closest # None /\ ~InSeq(closest.v, selected_expirations)
            THEN SelectedLoop(exp_dates, Tail(target_dates),
                              Append(selected_expirations, closest.v))
            ELSE SelectedLoop(exp_dates, Tail(target_dates), selected_expirations)

SelectedExpirations(expirations, today) ==
    SelectedLoop(expirations, get_target_dates(today, DefaultTargetDays), <<>>)

ODRow(ticker, type, exp, days_to_exp, row, current_price) ==
    LET iv == row.impliedVolatility
        option_type == IF type = "Call" THEN "call" ELSE "put"
        greeks == IF IsNum(iv) /\ iv.v > 0          \* nan > 0 is False
                  THEN calculate_greeks(current_price, row.strike, days_to_exp,
                                        ODRate, iv.v, option_type)
                  ELSE ZeroGreeks
    IN [ticker |-> ticker, type |-> type, expiration |-> exp,
        days_to_exp |-> days_to_exp, strike |-> row.strike,
        lastPrice |-> row.lastPrice, bid |-> row.bid, ask |-> row.ask,
        volume |-> row.volume, openInterest |-> row.openInterest,
        impliedVolatility |-> IF IsNum(iv) THEN Num(iv.v * 100) ELSE NaN,
        delta |-> greeks.delta, gamma |-> greeks.gamma,
        theta |-> greeks.theta, vega |-> greeks.vega,
        current_price |-> current_price]

ODRows(ticker, type, exp, days_to_exp, rows, current_price) ==
    [i \in 1..Len(rows) |-> ODRow(ticker, type, exp, days_to_exp, rows[i], current_price)]

\* The rows one expiration adds to options_data: none when option_chain raises;
\* the calls alone when the puts loop raises, since every row is appended as it
\* is built.
ODExpirationRows(ticker, sc, exp, now, current_price) ==
    LET days_to_exp == (exp * Day - now) \div Day
    IN IF exp \in sc.failing THEN <<>>
       ELSE ODRows(ticker, "Call", exp, days_to_exp, sc.calls, current_price)
            \o (IF exp \in sc.broken THEN <<>>
                ELSE ODRows(ticker, "Put", exp, days_to_exp, sc.puts, current_price))

RECURSIVE ODExpirationLoop(_, _, _, _, _)
ODExpirationLoop(ticker, sc, selected_expirations, now, current_price) ==
    IF selected_expirations = <<>> THEN <<>>
    ELSE ODExpirationRows(ticker, sc, Head(selected_expirations), now, current_price)
         \o ODExpirationLoop(ticker, sc, Tail(selected_expirations), now, current_price)

\* Python truth value of a price: None and 0 are false
PriceTruthy(current_price) == IsNum(current_price) /\ current_price.v # 0

get_options_data_od(ticker, sc, now) ==
    LET current_price == get_stock_price(sc)
    IN IF ~PriceTruthy(current_price) THEN NoneResult
       ELSE IF NoExpirations(sc.options) THEN NoneResult
       ELSE ODExpirationLoop(ticker, sc, SelectedExpirations(sc.options, now),
                             now, current_price)

----------------------------------------------------------------------------
(* The /api/options handlers.                                              *)

RawTickers == {"AAPL", " aapl ", "ZZZZ", "  "}

\* ticker.strip().upper()
strip_upper(raw) ==
    CASE raw = "AAPL" -> "AAPL"
      [] raw = " aapl " -> "AAPL"
      [] raw = "ZZZZ" -> "ZZZZ"
      [] raw = "  " -> ""

ErrorEntry(ticker) == [error |-> ticker]  \* {'error': f'Could not fetch data for {ticker}'}

ErrorResponse == [error |-> TRUE, body |-> <<>>, returned |-> <<>>, at |-> <<>>]

\* if options_data: results[ticker] = options_data, else an error entry.
\* st: the analyzer's cache, the time, the results built so far, and per ticker
\* what get_options_data returned and when it was called; r: the call made.
AddResult(st, ticker, r) ==
    [cache |-> r.cache, stamps |-> r.stamps, now |-> r.now,
     results |-> (ticker :> (IF r.call.result # NoneResult THEN r.call.result
                             ELSE ErrorEntry(ticker))) @@ st.results,
     returned |-> (ticker :> r.call.result) @@ st.returned,
     at |-> st.at @@ (ticker :> st.now),
     failed |-> r.call.result = NoneResult]

\* Mutant: the loop stops at the first ticker whose analysis fails.
RECURSIVE ResultsLoopAbort(_, _, _, _, _)
ResultsLoopAbort(tickers, provider, st, d, with_moneyness) ==
    IF tickers = <<>> \/ st.failed THEN st
    ELSE IF strip_upper(Head(tickers)) = ""
    THEN ResultsLoopAbort(Tail(tickers), provider, st, d, with_moneyness)
    ELSE ResultsLoopAbort(Tail(tickers), provider,
             AddResult(st, strip_upper(Head(tickers)),
                 get_options_data(st.cache, st.stamps, st.now,
                                  strip_upper(Head(tickers)), DefaultTargetDays,
                                  provider[strip_upper(Head(tickers))], d,
                                  with_moneyness)),
             d, with_moneyness)

\* stock_options_dashboard.py / demo_dashboard.py: the loop over the tickers.
RECURSIVE ResultsLoop(_, _, _, _, _)
ResultsLoop(tickers, provider, st, d, with_moneyness) ==
    IF tickers = <<>> THEN st
    ELSE IF strip_upper(Head(tickers)) = ""
    THEN ResultsLoop(Tail(tickers), provider, st, d, with_moneyness)
    ELSE ResultsLoop(Tail(tickers), provider,
             AddResult(st, strip_upper(Head(tickers)),
                 get_options_data(st.cache, st.stamps, st.now,
                                  strip_upper(Head(tickers)), DefaultTargetDays,
                                  provider[strip_upper(Head(tickers))], d,
                                  with_moneyness)),
             d, with_moneyness)

\* jsonify(results), and the analyzer the handler leaves
Respond(st) ==
    [response |-> [error |-> FALSE, body |-> st.results,
                   returned |-> st.returned, at |-> st.at],
     cache |-> st.cache, stamps |-> st.stamps, now |-> st.now]

EmptyResults(cache, stamps, now) ==
    [cache |-> cache, stamps |-> stamps, now |-> now,
     results |-> <<>>, returned |-> <<>>, at |-> <<>>, failed |-> FALSE]

\* get_options of stock_options_dashboard.py / demo_dashboard.py
get_options(tickers, provider, cache, stamps, now, d, with_moneyness) ==
    IF tickers = <<>>
    THEN [response |-> ErrorResponse, cache |-> cache, stamps |-> stamps, now |-> now]
    ELSE Respond(ResultsLoop(tickers, provider, EmptyResults(cache, stamps, now),
                             d, with_moneyness))

\* options_dashboard.py: [t.strip().upper() for t in ... if t.strip()]
RECURSIVE ParseTickers(_)
ParseTickers(parts) ==
    IF parts = <<>> THEN <<>>
    ELSE IF strip_upper(Head(parts)) = "" THEN ParseTickers(Tail(parts))
    ELSE <<strip_upper(Head(parts))>> \o ParseTickers(Tail(parts))

\* list truth value: None and [] are false
RowsTruthy(options_data) == options_data # NoneResult /\ options_data # <<>>

\* if options_data: all_options.extend(options_data)
Extend(st, ticker, options_data, d) ==
    [now |-> st.now + d,
     all_options |-> IF RowsTruthy(options_data) THEN st.all_options \o options_data
                     ELSE st.all_options,
     returned |-> (ticker :> options_data) @@ st.returned,
     at |-> st.at @@ (ticker :> st.now)]

RECURSIVE AllOptionsLoop(_, _, _, _)
AllOptionsLoop(tickers, provider, st, d) ==
    IF tickers = <<>> THEN st
    ELSE AllOptionsLoop(Tail(tickers), provider,
             Extend(st, Head(tickers),
                    get_options_data_od(Head(tickers), provider[Head(tickers)], st.now),
                    d),
             d)

\* jsonify(all_options)
RespondOD(st) ==
    [response |-> [error |-> FALSE, body |-> st.all_options,
                   returned |-> st.returned, at |-> st.at],
     now |-> st.now]

\* get_options of options_dashboard.py; parts is tickers_input.split(',')
get_options_od(parts, provider, now, d) ==
    IF ParseTickers(parts) = <<>> THEN [response |-> ErrorResponse, now |-> now]
    ELSE RespondOD(AllOptionsLoop(ParseTickers(parts), provider,
                       [now |-> now, all_options |-> <<>>, returned |-> <<>>,
                        at |-> <<>>], d))

----------------------------------------------------------------------------
(* One server process of one of the three files handling /api/options      *)
(* requests one after the other, the provider's answers per ticker fixed.  *)

Variants == {"stock", "demo", "options"}

Good == [Reference EXCEPT !.hist = Num(100)]

ApiScenarios ==
    { Good,
      [Good EXCEPT !.options = <<>>],
      [Good EXCEPT !.failing = {90, 121}],
      [Good EXCEPT !.broken = {90}],
      [Good EXCEPT !.info_raises = TRUE, !.hist = Absent] }

ApiClockSteps == {299}

Batches ==
    { <<"AAPL">>, <<"ZZZZ">>, <<" aapl ", "ZZZZ">>, <<"ZZZZ", "AAPL">>,
      <<"AAPL", " aapl ">>, <<"  ", "ZZZZ">>, <<>> }

\* The provider answers well for at least one of the tickers.
Worlds == {w \in [Tickers -> ApiScenarios] : \E t \in Tickers : w[t] = Good}

ApiInit ==
    /\ data_cache = <<>>
    /\ cache_timestamp = <<>>
    /\ clock \in StartTimes
    /\ ticks = 0
    /\ ncalls = 0
    /\ last = NoCall
    /\ variant \in Variants
    /\ world \in Worlds
    /\ api = NoRequest
    /\ threads = NoThreads
    /\ written = NothingWritten
    /\ calc = NoCalc
    /\ twin = NoTwin
    /\ page = NoPage

\* The server after a request answered by h.
Answered(tickers, h) ==
    /\ api' = [kind |-> "request", tickers |-> tickers, response |-> h.response]
    /\ clock' = h.now
    /\ IF variant = "options"
       THEN UNCHANGED <<data_cache, cache_timestamp>>
       ELSE data_cache' = h.cache /\ cache_timestamp' = h.stamps

Request(tickers, d) ==
    /\ ncalls < MaxCalls
    /\ ncalls' = ncalls + 1
    /\ IF variant = "options"
       THEN Answered(tickers, get_options_od(tickers, world, clock, d))
       ELSE Answered(tickers, get_options(tickers, world, data_cache, cache_timestamp,
                                          clock, d, variant = "stock"))
    /\ UNCHANGED <<ticks, last, variant, world, threads, written, calc, page, twin>>

ApiNext ==
    \/ \E step \in ApiClockSteps : Tick(step)
    \/ \E tickers \in Batches, d \in Elapsed : Request(tickers, d)

ApiSpec == ApiInit /\ [][ApiNext]_vars

----------------------------------------------------------------------------
(* Properties of the sequential analyzer (Spec).                           *)

IsCall == ncalls' # ncalls

HasQuery(log, q) == \E i \in 1..Len(log) : log[i].q = q

Positive(x) == IsNum(x) /\ x.v > 0

\* Some price source of the provider answers with a positive number.
PriceResolvable(sc) ==
    ~sc.info_raises
    /\ (Positive(sc.currentPrice) \/ Positive(sc.regularMarketPrice) \/ Positive(sc.hist))

\* C1: a call for key k at time t is a hit, and returns the stored snapshot, if
\* and only if an entry for k exists and t - timestamp(k) < cache_duration; in
\* particular the call right after a store is a hit and a call at age >=
\* cache_duration is a miss although the entry is still stored.
C1_HitIffFresh ==
    [][IsCall =>
          LET k == last'.key
              stored == k \in DOMAIN data_cache /\ k \in DOMAIN cache_timestamp
          IN /\ (last'.kind = "hit") <=>
                    (stored /\ last'.t_check - cache_timestamp[k] < cache_duration)
             /\ last'.kind = "hit" => last'.result = data_cache[k]
             /\ (last.kind = "miss" /\ last.key = k /\ clock = last.t_return)
                    => last'.kind = "hit"
             /\ (stored /\ last'.t_check >= cache_timestamp[k] + cache_duration)
                    => (last'.kind # "hit" /\ k \in DOMAIN data_cache')]_vars

\* A call exactly cache_duration seconds after the store missed, and the entry it
\* ignored is still in the cache.
C1_Witness ==
    /\ last.kind = "fail"
    /\ last.key \in DOMAIN data_cache
    /\ last.t_check - cache_timestamp[last.key] = cache_duration

\* C4: no snapshot is returned or cached with a price that is not a positive
\* number, and a call that reaches the provider fails when no price source
\* gives a positive price.
C4_PositivePrice ==
    /\ \A k \in DOMAIN data_cache : Positive(data_cache[k].current_price)
    /\ last.kind \in {"hit", "miss"} => Positive(last.result.current_price)
    /\ (last.kind \in {"miss", "fail"} /\ ~PriceResolvable(last.scenario))
           => last.kind = "fail"

\* C5: when the provider lists no expirations, the call returns None, fetches no
\* option chain and leaves the cache as it was.
C5_NoExpirationsFails ==
    [][(IsCall /\ HasQuery(last'.log, "options") /\ last'.scenario.options = <<>>)
          => /\ last'.kind = "fail"
             /\ last'.result = NoneResult
             /\ ~HasQuery(last'.log, "option_chain")
             /\ UNCHANGED <<data_cache, cache_timestamp>>]_vars

C5_Witness ==
    /\ last.kind = "fail"
    /\ HasQuery(last.log, "options")
    /\ last.scenario.options = <<>>

\* C7: a snapshot returned on a miss is in the cache under the call's key, stamped
\* with the time of the return, and the next call for that key within
\* cache_duration returns that same snapshot.
C7_StoredBeforeReturn ==
    /\ [](last.kind = "miss" =>
            /\ last.key \in DOMAIN data_cache
            /\ last.key \in DOMAIN cache_timestamp
            /\ data_cache[last.key] = last.result
            /\ cache_timestamp[last.key] = last.t_return)
    /\ [][(IsCall /\ last.kind = "miss" /\ last'.key = last.key
             /\ clock - last.t_return < cache_duration)
            => (last'.kind = "hit" /\ last'.result = last.result)]_vars

\* A hit at a later time than the store it reads.
C7_Witness ==
    /\ last.kind = "hit"
    /\ last.t_check > cache_timestamp[last.key]
    /\ last.result = data_cache[last.key]


----------------------------------------------------------------------------
(* Properties of the /api/options handlers (ApiSpec).                      *)

\* The tickers a request asks for: its non-blank entries, normalised.
Requested(tickers) ==
    {strip_upper(tickers[i]) : i \in {j \in 1..Len(tickers) : strip_upper(tickers[j]) # ""}}

Answers == api.kind = "request" /\ ~api.response.error

\* The rows of a flat options_dashboard response that belong to ticker t.
RowsOf(body, t) == SelectSeq(body, LAMBDA row : row.ticker = t)

\* What a response says about ticker t: its entry in the results object, or its
\* rows in the flat list (no entry: <<>>).
EntryOf(response, t) ==
    IF variant = "options" THEN RowsOf(response.body, t)
    ELSE IF t \in DOMAIN response.body THEN <<response.body[t]>> ELSE <<>>

\* C2: every answered batch request has, for every requested ticker, an entry in
\* the response: a snapshot of that ticker or an error description of it.
C2_EveryTickerCovered ==
    Answers => \A t \in Requested(api.tickers) : EntryOf(api.response, t) # <<>>

\* The batch without the tickers other than t.
Only(tickers, t) == SelectSeq(tickers, LAMBDA raw : strip_upper(raw) = t)

\* The response to the request tickers, made at time now on the cache.
Alone(tickers, cache, stamps, now) ==
    IF variant = "options"
    THEN get_options_od(tickers, world, now, 1).response
    ELSE get_options(tickers, world, cache, stamps, now, 1, variant = "stock").response

\* C3: in a batch request every requested ticker is analysed, whichever tickers
\* before it failed, and the response says about it exactly what the response
\* to the request without the other tickers, made when the batch reached the
\* ticker, says about it.
C3_FailureIsolation ==
    [][ (IsCall /\ api'.kind = "request" /\ ~api'.response.error) =>
            \A t \in Requested(api'.tickers) :
                /\ t \in DOMAIN api'.response.at
                /\ EntryOf(api'.response, t)
                       = EntryOf(Alone(Only(api'.tickers, t), data_cache,
                                       cache_timestamp, api'.response.at[t]), t) ]_vars

\* A batch whose first ticker failed and whose second ticker got its result.
C3_Witness ==
    /\ Answers
    /\ Len(api.tickers) = 2
    /\ strip_upper(api.tickers[1]) # strip_upper(api.tickers[2])
    /\ Requested(api.tickers) = Tickers
    /\ ~RowsTruthy(api.response.returned[strip_upper(api.tickers[1])])
    /\ RowsTruthy(api.response.returned[strip_upper(api.tickers[2])])
    /\ EntryOf(api.response, strip_upper(api.tickers[2])) # <<>>

\* The expirations the analyzer selects for provider sc at time now.
Selected(sc, now) ==
    IF variant = "options" THEN SelectedExpirations(sc.options, now)
    ELSE TargetExpirations(sc.options, DefaultTargetDays, now)

\* The selected expirations whose option chain cannot be fetched or processed.
Failed(sc, now) ==
    {e \in {Selected(sc, now)[i] : i \in 1..Len(Selected(sc, now))} :
        \/ e \in sc.failing
        \/ e \in sc.broken /\ sc.puts # <<>>}

\* The expirations that appear in what the analyzer returned.
ExpirationsIn(returned) ==
    IF variant = "options" THEN {returned[i].expiration : i \in 1..Len(returned)}
    ELSE {returned.expirations[i].date : i \in 1..Len(returned.expirations)}

\* C6: what the analyzer returns for a ticker with a price and expirations
\* holds exactly the selected expirations whose chain did not fail.
C6_FailedExpirationSkipped ==
    Answers =>
        \A t \in Requested(api.tickers) :
            LET sc == world[t]
                now == api.response.at[t]
                returned == api.response.returned[t]
            IN (~sc.info_raises /\ sc.options # <<>>) =>
                   /\ returned # NoneResult
                   /\ ExpirationsIn(returned)
                          = {Selected(sc, now)[i] : i \in 1..Len(Selected(sc, now))}
                                \ Failed(sc, now)

----------------------------------------------------------------------------
(* Calls of get_options_data with caller-chosen target_days (KeySpec).     *)

KeyTargetDayLists == {<<90, 120>>, <<120, 90>>, <<90>>, <<90, 150>>}

KeyNext ==
    \/ \E step \in ClockSteps : Tick(step)
    \/ \E ticker \in Tickers, target_days \in KeyTargetDayLists, d \in Elapsed :
          GetOptionsData(ticker, target_days, Reference, d)

KeySpec == Init /\ [][KeyNext]_vars

\* The day-offsets written in a cache key: "<ticker>_<d1>-<d2>-..."
OffsetsOf(key) == {key[i] : i \in {j \in 3..Len(key) : j % 2 = 1}}

Offsets(target_days) == {target_days[i] : i \in 1..Len(target_days)}

\* C9: the entry a call uses is the entry, and the only entry, of its ticker and
\* its set of day-offsets: no other key of the cache has that ticker and those
\* offsets, in whatever order they were given.
C9_KeyBySortedOffsets ==
    last.kind # "init" =>
        \A key \in DOMAIN data_cache :
            (key = last.key)
                <=> (key[1] = last.ticker /\ OffsetsOf(key) = Offsets(last.target_days))

----------------------------------------------------------------------------
(* Calls of get_options_data at several times of day, on several lists of  *)
(* available expirations (SelSpec).                                        *)

SelStartTimes == {0, 6 * 3600, 12 * 3600}

SelTargetDayLists == {<<90, 120>>, <<91, 90>>}

SelAvailable == {<<90, 91>>, <<90, 121>>, <<89, 90, 91, 120>>}

SelInit ==
    /\ data_cache = <<>>
    /\ cache_timestamp = <<>>
    /\ clock \in SelStartTimes
    /\ ticks = 0
    /\ ncalls = 0
    /\ last = NoCall
    /\ variant \in {"stock", "options"}
    /\ world = QuietWorld
    /\ api = NoRequest
    /\ threads = NoThreads
    /\ written = NothingWritten
    /\ calc = NoCalc
    /\ twin = NoTwin
    /\ page = NoPage

\* The provider queries of options_dashboard's get_options_data, in order.
od_log(sc, now) ==
    <<Query("history", 0)>>
    \o (IF ~PriceTruthy(get_stock_price(sc)) THEN <<>>
        ELSE <<Query("options", 0)>>
             \o ChainQueries(SelectedExpirations(sc.options, now)))

\* One call of options_dashboard's analyzer.get_options_data(ticker), d seconds long.
GetOptionsDataOD(ticker, sc, d) ==
    /\ variant = "options"
    /\ ncalls < MaxCalls
    /\ ncalls' = ncalls + 1
    /\ last' = [NoCall EXCEPT !.kind = "rows", !.ticker = ticker,
                              !.target_days = DefaultTargetDays, !.scenario = sc,
                              !.result = get_options_data_od(ticker, sc, clock),
                              !.log = od_log(sc, clock),
                              !.t_check = clock, !.t_return = clock + d]
    /\ clock' = clock + d
    /\ UNCHANGED <<data_cache, cache_timestamp, ticks, variant, world, api, threads,
                   written, calc, page, twin>>

\* A call is over before the clock the program reads moves on; the clock
\* advances between calls.
SelElapsed == {0}

SelNext ==
    \/ \E step \in ApiClockSteps : Tick(step)
    \/ \E ticker \in Tickers, target_days \in SelTargetDayLists,
          available \in SelAvailable, d \in SelElapsed :
          /\ variant = "stock"
          /\ GetOptionsData(ticker, target_days,
                            [Reference EXCEPT !.options = available], d)
    \/ \E available \in SelAvailable, d \in SelElapsed :
          GetOptionsDataOD("AAPL", [Good EXCEPT !.options = available], d)

SelSpec == SelInit /\ [][SelNext]_vars

\* The expirations whose chain a call asked the provider for.
Fetched(log) == {log[i].arg : i \in {j \in 1..Len(log) : log[j].q = "option_chain"}}

\* The distance between midnight of day exp and the instant target_date, in seconds.
Distance(exp, target_date) == Abs(exp * Day - target_date)

\* available[i] is nearest to target_date, and the first of the nearest.
Nearest(available, i, target_date) ==
    \A j \in 1..Len(available) :
        /\ Distance(available[i], target_date) <= Distance(available[j], target_date)
        /\ j < i => Distance(available[j], target_date) > Distance(available[i], target_date)

\* C10: the expirations a call selects are, for each target offset, the first
\* of the available dates nearest to the instant of the call plus the offset.
C10_ExactClosest ==
    last.kind = "miss" =>
        Fetched(last.log)
            = {last.scenario.options[i] :
                 i \in {j \in 1..Len(last.scenario.options) :
                          \E k \in 1..Len(last.target_days) :
                              Nearest(last.scenario.options, j,
                                      last.t_check + last.target_days[k] * Day)}}

----------------------------------------------------------------------------
(* Request threads of the threaded server calling get_options_data on the  *)
(* one analyzer, a statement at a time (ConcSpec).                         *)

MaxThreads == 3

Threads == 1..MaxThreads

Idle == [pc |-> "idle", ticker |-> "", key |-> <<>>, result |-> NoneResult,
         kind |-> "none", seen |-> 0, got |-> 0]

IdleThreads == [th \in Threads |-> Idle]

ConcInit ==
    /\ data_cache = <<>>
    /\ cache_timestamp = <<>>
    /\ clock \in StartTimes
    /\ ticks = 0
    /\ ncalls = 0
    /\ last = NoCall
    /\ variant = "stock"
    /\ world = QuietWorld
    /\ api = NoRequest
    /\ threads = IdleThreads
    /\ written = NothingWritten
    /\ calc = NoCalc
    /\ twin = NoTwin
    /\ page = NoPage

\* A request thread enters get_options_data(ticker) and builds the cache key.
Begin(th, ticker) ==
    /\ threads[th].pc = "idle"
    /\ threads' = [threads EXCEPT ![th] =
                      [Idle EXCEPT !.pc = "check", !.ticker = ticker,
                                   !.key = cache_key(ticker, DefaultTargetDays)]]
    /\ UNCHANGED <<data_cache, cache_timestamp, clock, ticks, ncalls, last, variant,
                   world, api, written, calc, page, twin>>

\* The key is in both dicts and the stored time is less than cache_duration old?
CheckCache(th) ==
    /\ threads[th].pc = "check"
    /\ threads' = [threads EXCEPT ![th] =
                      IF CacheHit(data_cache, cache_timestamp, threads[th].key, clock)
                      THEN [@ EXCEPT !.pc = "return_cached",
                                     !.seen = written.stamp[threads[th].key]]
                      ELSE [@ EXCEPT !.pc = "fetch"]]
    /\ UNCHANGED <<data_cache, cache_timestamp, clock, ticks, ncalls, last, variant,
                   world, api, written, calc, page, twin>>

\* return self.data_cache[cache_key]
ReturnCached(th) ==
    /\ threads[th].pc = "return_cached"
    /\ threads' = [threads EXCEPT ![th] =
                      [@ EXCEPT !.pc = "returned", !.kind = "hit",
                                !.result = data_cache[threads[th].key],
                                !.got = written.data[threads[th].key]]]
    /\ UNCHANGED <<data_cache, cache_timestamp, clock, ticks, ncalls, last, variant,
                   world, api, written, calc, page, twin>>

\* The provider is asked and the result built; None is returned at once.
Fetch(th) ==
    /\ threads[th].pc = "fetch"
    /\ \E sc \in {world[threads[th].ticker],
                   [world[threads[th].ticker] EXCEPT !.options = <<>>]} :
          threads' = [threads EXCEPT ![th] =
                        IF Analyze(threads[th].ticker, DefaultTargetDays, sc, clock,
                                   TRUE).result = NoneResult
                        THEN [@ EXCEPT !.pc = "returned", !.kind = "fail"]
                        ELSE [@ EXCEPT !.pc = "store_data",
                                       !.result = Analyze(threads[th].ticker,
                                                          DefaultTargetDays, sc, clock,
                                                          TRUE).result]]
    /\ UNCHANGED <<data_cache, cache_timestamp, clock, ticks, ncalls, last, variant,
                   world, api, written, calc, page, twin>>

\* self.data_cache[cache_key] = result
StoreData(th) ==
    /\ threads[th].pc = "store_data"
    /\ data_cache' = StoreSnapshot(data_cache, threads[th].key, threads[th].result)
    /\ written' = [written EXCEPT !.data = (threads[th].key :> th) @@ @]
    /\ threads' = [threads EXCEPT ![th].pc = "store_time"]
    /\ UNCHANGED <<cache_timestamp, clock, ticks, ncalls, last, variant, world, api,
                   calc, page, twin>>

\* self.cache_timestamp[cache_key] = time.time(); return result
StoreTime(th) ==
    /\ threads[th].pc = "store_time"
    /\ cache_timestamp' = StoreTimestamp(cache_timestamp, threads[th].key, clock)
    /\ written' = [written EXCEPT !.stamp = (threads[th].key :> th) @@ @]
    /\ threads' = [threads EXCEPT ![th] = [@ EXCEPT !.pc = "returned", !.kind = "miss"]]
    /\ UNCHANGED <<data_cache, clock, ticks, ncalls, last, variant, world, api, calc, page, twin>>

ConcNext ==
    \/ \E step \in ApiClockSteps : Tick(step)
    \/ \E th \in Threads, ticker \in Tickers : Begin(th, ticker)
    \/ \E th \in Threads : CheckCache(th)
    \/ \E th \in Threads : ReturnCached(th)
    \/ \E th \in Threads : Fetch(th)
    \/ \E th \in Threads : StoreData(th)
    \/ \E th \in Threads : StoreTime(th)

ConcSpec == ConcInit /\ [][ConcNext]_vars

\* C8: the snapshot a cache hit returns and the stored time its freshness
\* check read were written by the same store.
C8_NoTornEntry ==
    \A th \in Threads :
        (threads[th].pc = "returned" /\ threads[th].kind = "hit")
            => threads[th].got = threads[th].seen

----------------------------------------------------------------------------
(* Properties of the expiration selection (SelSpec).                       *)

\* The expirations a call selected, in the order their chains were asked for.
SelectedList(log) ==
    LET chain == SelectSeq(log, LAMBDA query : query.q = "option_chain")
    IN [i \in 1..Len(chain) |-> chain[i].arg]

\* The date the analyzer of this process finds closest to the k-th target of a call.
ClosestTo(call, k) ==
    IF variant = "options"
    THEN find_closest_expiration(call.scenario.options,
                                 call.t_check + call.target_days[k] * Day).v
    ELSE ClosestLoop(call.scenario.options,
                     call.t_check + call.target_days[k] * Day, Inf, None).v

\* The first target offset of the call whose closest date is e.
FirstOffset(call, e) ==
    CHOOSE k \in 1..Len(call.target_days) :
        /\ ClosestTo(call, k) = e
        /\ \A j \in 1..(k - 1) : ClosestTo(call, j) # e

\* The expirations of what a call returned, in the order they appear in it.
RECURSIVE Distinct(_)
Distinct(dates) ==
    IF dates = <<>> THEN <<>>
    ELSE <<Head(dates)>> \o Distinct(SelectSeq(Tail(dates), LAMBDA x : x # Head(dates)))

ReturnedExpirations(call) ==
    IF call.kind = "rows"
    THEN Distinct([i \in 1..Len(call.result) |-> call.result[i].expiration])
    ELSE [i \in 1..Len(call.result.expirations) |-> call.result.expirations[i].date]

\* C11: the selected expirations of a call hold no date twice, only available
\* dates, at most one date per target offset, each date chosen by some offset,
\* in the order of the offsets that first chose them; what the call returns
\* lists its expirations in that same order.
C11_SelectionList ==
    (last.kind \in {"miss", "rows"} /\ last.result # NoneResult) =>
        LET sel == SelectedList(last.log)
        IN /\ \A i, j \in 1..Len(sel) : sel[i] = sel[j] => i = j
           /\ \A i \in 1..Len(sel) : InSeq(sel[i], last.scenario.options)
           /\ Len(sel) <= Len(last.target_days)
           /\ \A i \in 1..Len(sel) :
                  \E k \in 1..Len(last.target_days) : ClosestTo(last, k) = sel[i]
           /\ \A k \in 1..Len(last.target_days) : InSeq(ClosestTo(last, k), sel)
           /\ \A i, j \in 1..Len(sel) :
                  i < j => FirstOffset(last, sel[i]) < FirstOffset(last, sel[j])
           /\ ReturnedExpirations(last) = sel

\* Two target offsets chose the same date, and a later date of the calendar was
\* selected before an earlier one.
C11_WitnessOrder ==
    /\ last.kind = "miss"
    /\ Len(last.target_days) = 2
    /\ SelectedList(last.log) = <<91, 90>>

\* Two target offsets of one call chose the same date, which is listed once.
C11_Witness ==
    /\ last.kind \in {"miss", "rows"}
    /\ last.result # NoneResult
    /\ Len(SelectedList(last.log)) < Len(last.target_days)

\* A call that ran the expiration selection.
Selecting(call) == call.kind \in {"miss", "rows"} /\ call.result # NoneResult

----------------------------------------------------------------------------
(* calculate_greeks called on arguments of every kind (GreekSpec).         *)

\* Spot prices: Python and numpy numbers, zero, negative, and None.
GreekSpots == {Num(100), NpNum(100), Num(0), NpNum(0), Num(-100), None}

GreekStrikes == {100, 120, 0, -100}

GreekDays == {-1, 0, 30, 90}

GreekSigmas == {-20, 0, 30}

GreekRates == {450}

GreekInit ==
    /\ data_cache = <<>>
    /\ cache_timestamp = <<>>
    /\ clock \in StartTimes
    /\ ticks = 0
    /\ ncalls = 0
    /\ last = NoCall
    /\ variant = "stock"
    /\ world = QuietWorld
    /\ api = NoRequest
    /\ threads = NoThreads
    /\ written = NothingWritten
    /\ calc \in [done : {FALSE}, S : GreekSpots, K : GreekStrikes, days : GreekDays,
                 r : GreekRates, sigma : GreekSigmas, option_type : {"call", "put"},
                 out : {ZeroGreeks}]
    /\ twin = NoTwin
    /\ page = NoPage

\* The call returns.
CalculateGreeks ==
    /\ ~calc.done
    /\ calc' = [calc EXCEPT !.done = TRUE,
                            !.out = calculate_greeks(calc.S, calc.K, calc.days, calc.r,
                                                     calc.sigma, calc.option_type)]
    /\ UNCHANGED <<data_cache, cache_timestamp, clock, ticks, ncalls, last, variant,
                   world, api, threads, written, page, twin>>

GreekNext == CalculateGreeks

GreekSpec == GreekInit /\ [][GreekNext]_vars

\* C13: with a time to expiry <= 0 or a volatility <= 0, calculate_greeks
\* returns the zero vector, whatever spot, strike, rate and option kind are.
C13_ZeroVectorOnGuard ==
    (calc.done /\ (calc.days <= 0 \/ calc.sigma <= 0)) => calc.out = ZeroGreeks

\* A call with a positive time to expiry, a negative volatility, and a spot and
\* a strike of 0 returned.
C13_Witness ==
    /\ calc.done
    /\ calc.days > 0
    /\ calc.sigma < 0
    /\ calc.S = Num(0)
    /\ calc.K = 0
    /\ calc.out = ZeroGreeks

GreekNames == {"delta", "gamma", "theta", "vega"}

\* The logarithm or the division of d1 is undefined for spot S and strike K.
NumericalFailure(S, K) == IsNum(S) /\ (K = 0 \/ S.v = 0 \/ (S.v > 0) # (K > 0))

\* C14: with T > 0 and a volatility > 0, calculate_greeks returns no vector with
\* a component that is not a number, and returns the zero vector whenever the
\* logarithm or the division is undefined (spot <= 0 or strike <= 0).
C14_FailureMappedToZero ==
    (calc.done /\ calc.days > 0 /\ calc.sigma > 0) =>
        /\ \A g \in GreekNames : calc.out[g].k # "nan"
        /\ NumericalFailure(calc.S, calc.K) => calc.out = ZeroGreeks

\* A vector within the bounds of an option of the given kind.
WithinBounds(v, option_type) ==
    /\ v.delta.k \in {"zero", IF option_type = "call" THEN "unit" ELSE "negunit"}
    /\ v.gamma.k \in {"zero", "nonneg"}
    /\ v.vega.k \in {"zero", "nonneg"}
    /\ v.theta.k \in {"zero", "finite"}

AllWithinBounds(rows, option_type) ==
    \A i \in 1..Len(rows) : WithinBounds(rows[i], option_type)

\* C15: for spot > 0, strike > 0, T > 0 and volatility > 0 calculate_greeks
\* returns delta in [0, 1] for a call and in [-1, 0] for a put, gamma >= 0 and
\* vega >= 0; and every contract of every snapshot a call of get_options_data
\* returns is within these bounds.
C15_GreekBounds ==
    /\ (calc.done /\ IsNum(calc.S) /\ calc.S.v > 0 /\ calc.K > 0 /\ calc.days > 0
           /\ calc.sigma > 0)
          => WithinBounds(calc.out, calc.option_type)
    /\ last.kind \in {"miss", "hit"} =>
           \A i \in 1..Len(last.result.expirations) :
               /\ AllWithinBounds(last.result.expirations[i].calls, "call")
               /\ AllWithinBounds(last.result.expirations[i].puts, "put")

----------------------------------------------------------------------------
(* Rows without a usable implied volatility (ApiSpec).                     *)

\* The rows of one kind that the answer for a ticker holds for expiration exp.
AnswerRows(returned, exp, type) ==
    IF variant = "options"
    THEN SelectSeq(returned, LAMBDA row : row.expiration = exp /\ row.type = type)
    ELSE LET group == SelectSeq(returned.expirations, LAMBDA g : g.date = exp)
         IN IF group = <<>> THEN <<>>
            ELSE IF type = "Call" THEN group[1].calls ELSE group[1].puts

\* The stored implied volatility of an answer row is 0.
StoredIvZero(row) ==
    IF variant = "options" THEN row.impliedVolatility = Num(0)
    ELSE row.impliedVolatility = 0

RowGreeks(row) ==
    [delta |-> row.delta, gamma |-> row.gamma, theta |-> row.theta, vega |-> row.vega]

\* Every provider row is in the answer, at its place; a row whose implied
\* volatility is missing or not a number is stored with volatility 0 and the
\* zero vector, a row with a positive volatility with computed Greeks.
RowsKept(provided, answered) ==
    /\ Len(answered) = Len(provided)
    /\ \A i \in 1..Len(provided) :
          /\ answered[i].strike = provided[i].strike
          /\ ~IsNum(provided[i].impliedVolatility) =>
                 StoredIvZero(answered[i]) /\ RowGreeks(answered[i]) = ZeroGreeks
          /\ (IsNum(provided[i].impliedVolatility) /\ provided[i].impliedVolatility.v > 0)
                 => RowGreeks(answered[i]) # ZeroGreeks

\* C16: a provider row whose implied volatility is missing or NaN is in the
\* answer with implied volatility 0 and four Greeks of 0, and the other rows of
\* its expiration are in the answer as well, with their own Greeks.
C16_MissingIvCoerced ==
    Answers =>
        \A t \in Requested(api.tickers) :
            api.response.returned[t] # NoneResult =>
                \A exp \in ExpirationsIn(api.response.returned[t]) :
                    (exp \notin world[t].failing /\ exp \notin world[t].broken) =>
                        /\ RowsKept(world[t].calls,
                                    AnswerRows(api.response.returned[t], exp, "Call"))
                        /\ RowsKept(world[t].puts,
                                    AnswerRows(api.response.returned[t], exp, "Put"))

----------------------------------------------------------------------------
(* The dashboards' client-side filters (the script inside each page).      *)
(* Greeks, their bounds and implied volatility are in hundredths; strikes, *)
(* prices, days, volume and open interest are whole numbers.               *)

Blank == [k |-> "blank", v |-> 0]         \* an input field left empty: ''
Null == [k |-> "null", v |-> 0]
All == [k |-> "all", v |-> 0]             \* the select's 'all' option

\* parseFloat / parseInt of a field's value: '' gives NaN.
parseFloat(x) == IF IsNum(x) THEN x ELSE NaN

\* x || null: NaN and 0 are falsy.
OrNull(x) == IF IsNum(x) /\ x.v # 0 THEN x ELSE Null

\* a < b and a > b for a number a: false when b is NaN (and never reached,
\* behind "!== null", when b is null).
Below(a, b) == IsNum(b) /\ a < b.v
Above(a, b) == IsNum(b) /\ a > b.v

\* stock_options_dashboard.py -------------------------------------------

\* The filter fields as the page's HTML gives them, and as resetFilters sets them.
ResetForm ==
    [minDelta |-> Num(-100), maxDelta |-> Num(100),
     minGamma |-> Num(0), maxGamma |-> Num(100),
     minTheta |-> Num(-1000), maxTheta |-> Num(1000),
     minVega |-> Num(0), maxVega |-> Num(1000),
     minVolume |-> Num(0), minOpenInterest |-> Num(0),
     atmFilter |-> "all", daysFilter |-> All]

ConservativeForm ==
    [minDelta |-> Num(30), maxDelta |-> Num(70),
     minGamma |-> Num(1), maxGamma |-> Num(5),
     minTheta |-> Num(-15), maxTheta |-> Num(-5),
     minVega |-> Num(5), maxVega |-> Num(20),
     minVolume |-> Num(50), minOpenInterest |-> Num(50),
     atmFilter |-> "atm", daysFilter |-> Num(90)]

\* const filters = {...} of applyFilters.
ReadFilters(form) ==
    [minDelta |-> parseFloat(form.minDelta), maxDelta |-> parseFloat(form.maxDelta),
     minGamma |-> parseFloat(form.minGamma), maxGamma |-> parseFloat(form.maxGamma),
     minTheta |-> parseFloat(form.minTheta), maxTheta |-> parseFloat(form.maxTheta),
     minVega |-> parseFloat(form.minVega), maxVega |-> parseFloat(form.maxVega),
     minVolume |-> parseFloat(form.minVolume),
     minOpenInterest |-> parseFloat(form.minOpenInterest),
     atmFilter |-> form.atmFilter, daysFilter |-> form.daysFilter]

\* Mutant: the delta bounds are compared with the absolute delta.
filterOptionAbs(option, filters, currentPrice) ==
    /\ ~(filters.atmFilter = "atm"
         /\ Abs(option.strike - currentPrice) * 10 > currentPrice)
    /\ ~(Below(Abs(option.delta), filters.minDelta)
         \/ Above(Abs(option.delta), filters.maxDelta))
    /\ ~(Below(option.gamma, filters.minGamma) \/ Above(option.gamma, filters.maxGamma))
    /\ ~(Below(option.theta, filters.minTheta) \/ Above(option.theta, filters.maxTheta))
    /\ ~(Below(option.vega, filters.minVega) \/ Above(option.vega, filters.maxVega))
    /\ ~Below(option.volume, filters.minVolume)
    /\ ~Below(option.openInterest, filters.minOpenInterest)

\* priceRange = currentPrice * 0.1; (x || 0) is x for a number x.
filterOption(option, filters, currentPrice) ==
    /\ ~(filters.atmFilter = "atm"
         /\ Abs(option.strike - currentPrice) * 10 > currentPrice)
    /\ ~(Below(option.delta, filters.minDelta) \/ Above(option.delta, filters.maxDelta))
    /\ ~(Below(option.gamma, filters.minGamma) \/ Above(option.gamma, filters.maxGamma))
    /\ ~(Below(option.theta, filters.minTheta) \/ Above(option.theta, filters.maxTheta))
    /\ ~(Below(option.vega, filters.minVega) \/ Above(option.vega, filters.maxVega))
    /\ ~Below(option.volume, filters.minVolume)
    /\ ~Below(option.openInterest, filters.minOpenInterest)

\* "Filter by days to expiration": the expiration is passed over.
DaysSkipped(expData, filters) ==
    filters.daysFilter # All /\ Above(expData.days_to_expiry, parseFloat(filters.daysFilter))

FilterList(options, filters, currentPrice) ==
    SelectSeq(options, LAMBDA option : filterOption(option, filters, currentPrice))

FilteredGroup(expData, filters, currentPrice) ==
    [expData EXCEPT !.calls = FilterList(@, filters, currentPrice),
                    !.puts = FilterList(@, filters, currentPrice)]

\* Mutant of GroupKept: a group is kept whatever is left in it.
GroupKeptAlways(expData, filters, currentPrice) ==
    ~DaysSkipped(expData, filters)

\* if (filteredCalls.length > 0 || filteredPuts.length > 0)
GroupKept(expData, filters, currentPrice) ==
    /\ ~DaysSkipped(expData, filters)
    /\ \/ Len(FilterList(expData.calls, filters, currentPrice)) > 0
       \/ Len(FilterList(expData.puts, filters, currentPrice)) > 0

\* The forEach over tickerData.expirations, in the object's key order.
FilterExpirations(expirations, filters, currentPrice) ==
    LET kept == SelectSeq(expirations,
                          LAMBDA expData : GroupKept(expData, filters, currentPrice))
    IN [i \in 1..Len(kept) |-> FilteredGroup(kept[i], filters, currentPrice)]

\* generateOptionsTable / displayData: the row is highlighted as at the money.
isATM(option, currentPrice) == Abs(option.strike - currentPrice) * 20 <= currentPrice

IsError(tickerData) == "error" \in DOMAIN tickerData

applyFilters(rawData, form) ==
    [ticker \in DOMAIN rawData |->
        IF IsError(rawData[ticker]) THEN rawData[ticker]
        ELSE [rawData[ticker] EXCEPT
                 !.expirations = FilterExpirations(@, ReadFilters(form),
                                                   rawData[ticker].current_price)]]

\* options_dashboard.py ---------------------------------------------------

\* Every number field is empty in the page's HTML and after clearFilters.
ClearedForm ==
    [deltaMin |-> Blank, deltaMax |-> Blank, gammaMin |-> Blank, gammaMax |-> Blank,
     thetaMin |-> Blank, thetaMax |-> Blank, vegaMin |-> Blank, vegaMax |-> Blank,
     daysMin |-> Blank, daysMax |-> Blank, ivMin |-> Blank, ivMax |-> Blank,
     volumeMin |-> Blank, atmOnly |-> FALSE, optionType |-> "both"]

\* setConservativeDefaults writes eight fields and leaves the others.
ConservativeDefaults(form) ==
    [form EXCEPT !.deltaMin = Num(30), !.deltaMax = Num(70), !.gammaMax = Num(5),
                 !.thetaMin = Num(-10), !.vegaMax = Num(20), !.daysMin = Num(30),
                 !.daysMax = Num(90), !.volumeMin = Num(50)]

ReadFiltersOD(form) ==
    [deltaMin |-> OrNull(parseFloat(form.deltaMin)),
     deltaMax |-> OrNull(parseFloat(form.deltaMax)),
     gammaMin |-> OrNull(parseFloat(form.gammaMin)),
     gammaMax |-> OrNull(parseFloat(form.gammaMax)),
     thetaMin |-> OrNull(parseFloat(form.thetaMin)),
     thetaMax |-> OrNull(parseFloat(form.thetaMax)),
     vegaMin |-> OrNull(parseFloat(form.vegaMin)),
     vegaMax |-> OrNull(parseFloat(form.vegaMax)),
     daysMin |-> OrNull(parseFloat(form.daysMin)),
     daysMax |-> OrNull(parseFloat(form.daysMax)),
     ivMin |-> OrNull(parseFloat(form.ivMin)),
     ivMax |-> OrNull(parseFloat(form.ivMax)),
     volumeMin |-> OrNull(parseFloat(form.volumeMin)),
     atmOnly |-> form.atmOnly, optionType |-> form.optionType]

\* The callback of allData.filter; atmThreshold = current_price * 0.05.
KeepOD(option, filters) ==
    /\ ~(filters.deltaMin # Null /\ Below(Abs(option.delta), filters.deltaMin))
    /\ ~(filters.deltaMax # Null /\ Above(Abs(option.delta), filters.deltaMax))
    /\ ~(filters.gammaMin # Null /\ Below(option.gamma, filters.gammaMin))
    /\ ~(filters.gammaMax # Null /\ Above(option.gamma, filters.gammaMax))
    /\ ~(filters.thetaMin # Null /\ Below(option.theta, filters.thetaMin))
    /\ ~(filters.thetaMax # Null /\ Above(option.theta, filters.thetaMax))
    /\ ~(filters.vegaMin # Null /\ Below(option.vega, filters.vegaMin))
    /\ ~(filters.vegaMax # Null /\ Above(option.vega, filters.vegaMax))
    /\ ~(filters.daysMin # Null /\ Below(option.days_to_exp, filters.daysMin))
    /\ ~(filters.daysMax # Null /\ Above(option.days_to_exp, filters.daysMax))
    /\ ~(filters.ivMin # Null /\ Below(option.impliedVolatility, filters.ivMin))
    /\ ~(filters.ivMax # Null /\ Above(option.impliedVolatility, filters.ivMax))
    /\ ~(filters.volumeMin # Null /\ Below(option.volume, filters.volumeMin))
    /\ ~(filters.atmOnly
         /\ Abs(option.strike - option.current_price) * 20 > option.current_price)
    /\ ~(filters.optionType = "calls" /\ option.type # "Call")
    /\ ~(filters.optionType = "puts" /\ option.type # "Put")

applyFilters_od(allData, form) ==
    SelectSeq(allData, LAMBDA option : KeepOD(option, ReadFiltersOD(form)))

----------------------------------------------------------------------------
(* The page in a browser: data arrives, the user sets fields and presses   *)
(* the filter buttons.                                                     *)

Contract(strike, delta, gamma, theta, vega, volume, openInterest) ==
    [strike |-> strike, delta |-> delta, gamma |-> gamma, theta |-> theta,
     vega |-> vega, volume |-> volume, openInterest |-> openInterest,
     impliedVolatility |-> 30]

AtmCall == Contract(100, 52, 2, -5, 20, 0, 10)
OtmCall == Contract(120, 20, 1, -3, 15, 100, 200)
AtmPut == Contract(100, -48, 2, -4, 20, 60, 50)
DearCall == Contract(5000, 52, 0, -150, 1250, 80, 90)
NearCall == Contract(108, 40, 2, -4, 18, 70, 80)

Group(exp, days, calls, puts) ==
    [exp |-> exp, days_to_expiry |-> days, calls |-> calls, puts |-> puts]

TickerData(price, expirations) ==
    [ticker |-> "AAPL", current_price |-> price, expirations |-> expirations]

\* What /api/options of stock_options_dashboard.py answered (rawData).
RawSnapshots ==
    { "AAPL" :> TickerData(100, <<Group(30, 30, <<AtmCall, OtmCall>>, <<AtmPut>>),
                                  Group(90, 90, <<OtmCall, NearCall>>, <<>>)>>),
      "AAPL" :> TickerData(100, <<Group(30, 30, <<AtmCall>>, <<>>)>>),
      "AAPL" :> TickerData(100, <<Group(30, 30, <<>>, <<>>),
                                  Group(90, 90, <<AtmCall>>, <<AtmPut>>)>>),
      "AAPL" :> TickerData(5000, <<Group(30, 30, <<DearCall>>, <<>>)>>),
      ("AAPL" :> TickerData(100, <<Group(90, 90, <<OtmCall>>, <<AtmPut>>)>>))
          @@ ("ZZZZ" :> [error |-> "Could not fetch data for ZZZZ"]) }

\* Rows as options_dashboard.py's get_options_data builds them.
FlatRow(option, type, price, days) ==
    [type |-> type, strike |-> option.strike, current_price |-> price,
     days_to_exp |-> days, impliedVolatility |-> option.impliedVolatility,
     delta |-> option.delta, gamma |-> option.gamma, theta |-> option.theta,
     vega |-> option.vega, volume |-> option.volume]

\* What /api/options of options_dashboard.py answered (allData).
AllDataLists ==
    { <<FlatRow(AtmCall, "Call", 100, 30), FlatRow(OtmCall, "Call", 100, 30),
        FlatRow(AtmPut, "Put", 100, 30), FlatRow(OtmCall, "Call", 100, 90)>>,
      <<FlatRow(AtmCall, "Call", 100, 30)>>,
      <<FlatRow(AtmPut, "Put", 100, 90), FlatRow(AtmCall, "Call", 100, 90),
        FlatRow(NearCall, "Call", 100, 90)>>,
      <<FlatRow(DearCall, "Call", 5000, 30)>> }

Snapshots(v) == IF v = "stock" THEN RawSnapshots ELSE AllDataLists

\* What the user may have put in the fields when a handler runs.
StockForms ==
    { [ResetForm EXCEPT !.maxVega = v, !.minVolume = m,
                        !.atmFilter = a, !.daysFilter = dd] :
        v \in {Num(1000), Num(15), Blank},
        m \in {Num(0), Num(50)}, a \in {"all", "atm"}, dd \in {All, Num(30)} }

ODForms ==
    { [ClearedForm EXCEPT !.vegaMax = v, !.thetaMin = t,
                          !.atmOnly = a, !.optionType = o] :
        v \in {Blank, Num(0), Num(15)},
        t \in {Blank, Num(-4)}, a \in BOOLEAN, o \in {"both", "calls"} }

Forms(v) == IF v = "stock" THEN StockForms ELSE ODForms

DefaultForm(v) == IF v = "stock" THEN ResetForm ELSE ClearedForm

Filtered(v, data, form) ==
    IF v = "stock" THEN applyFilters(data, form) ELSE applyFilters_od(data, form)

\* let rawData = {}; / let allData = [];
NoData == <<>>

\* The analyzer behind the page after one analysis of AAPL.
Served ==
    get_options_data(<<>>, <<>>, 6 * 3600, "AAPL", DefaultTargetDays, Reference, 1, TRUE)

FilterInit ==
    /\ \/ data_cache = <<>> /\ cache_timestamp = <<>>
       \/ data_cache = Served.cache /\ cache_timestamp = Served.stamps
    /\ clock \in StartTimes
    /\ ticks = 0
    /\ ncalls = 0
    /\ last = NoCall
    /\ variant \in {"stock", "options"}
    /\ world = QuietWorld
    /\ api = NoRequest
    /\ threads = NoThreads
    /\ written = NothingWritten
    /\ calc = NoCalc
    /\ twin = NoTwin
    /\ page = [open |-> TRUE, rawData |-> NoData, form |-> DefaultForm(variant),
               previous |-> DefaultForm(variant), filteredData |-> NoData,
               shown |-> "nothing"]

\* Mutant: the filtered list is assigned to the data itself.
ShowsInPlace(form, data, by) ==
    /\ page' = [page EXCEPT !.previous = page.form, !.form = form, !.rawData = data,
                            !.filteredData = data, !.shown = by]
    /\ UNCHANGED <<data_cache, cache_timestamp, clock, ticks, ncalls, last, variant,
                   world, api, threads, written, calc, twin>>

Shows(form, data, by) ==
    /\ page' = [page EXCEPT !.previous = page.form, !.form = form,
                            !.filteredData = data, !.shown = by]
    /\ UNCHANGED <<data_cache, cache_timestamp, clock, ticks, ncalls, last, variant,
                   world, api, threads, written, calc, twin>>

\* fetchData / loadData: the response becomes the data and is displayed whole.
FetchData(data) ==
    /\ page.rawData = NoData
    /\ page' = [page EXCEPT !.rawData = data, !.filteredData = data, !.shown = "load"]
    /\ UNCHANGED <<data_cache, cache_timestamp, clock, ticks, ncalls, last, variant,
                   world, api, threads, written, calc, twin>>

\* applyFilters with the fields as the user left them: nothing happens
\* while there is no data.
ApplyFilters(form) ==
    IF page.rawData = NoData
    THEN Shows(form, page.filteredData, page.shown)
    ELSE Shows(form, Filtered(variant, page.rawData, form), "filter")

\* stock_options_dashboard.py's resetFilters.
ResetFilters ==
    /\ variant = "stock"
    /\ ApplyFilters(ResetForm)

\* options_dashboard.py's clearFilters: displayData(allData).
ClearFilters ==
    /\ variant = "options"
    /\ Shows(ClearedForm, page.rawData, "clear")

\* setConservativeFilters / setConservativeDefaults.
SetConservative ==
    ApplyFilters(IF variant = "stock" THEN ConservativeForm
                 ELSE ConservativeDefaults(page.form))

FilterNext ==
    \/ \E data \in Snapshots(variant) : FetchData(data)
    \/ \E form \in Forms(variant) : ApplyFilters(form)
    \/ ResetFilters
    \/ ClearFilters
    \/ SetConservative

FilterSpec == FilterInit /\ [][FilterNext]_vars

----------------------------------------------------------------------------
(* Properties of the filters, under FilterSpec.                            *)

\* The page has filtered its data with the fields as they stand.
HasFiltered == page.open /\ page.rawData # NoData /\ page.shown = "filter"

\* C17: with the filter in its cleared / reset state, what the page shows
\* is the data it was given: the same expirations and, in each, the same
\* calls and puts in the same order.
C17_IdentityWhenCleared ==
    (/\ page.open
     /\ page.rawData # NoData
     /\ page.shown \in {"filter", "clear"}
     /\ page.form = DefaultForm(variant))
        => page.filteredData = page.rawData

\* A bound is present when its field holds a number.
Within(x, lo, hi) == (IsNum(lo) => x >= lo.v) /\ (IsNum(hi) => x <= hi.v)

\* The contract satisfies every bound present in the fields (stock page).
Satisfies(option, expData, currentPrice, form) ==
    /\ Within(option.delta, form.minDelta, form.maxDelta)
    /\ Within(option.gamma, form.minGamma, form.maxGamma)
    /\ Within(option.theta, form.minTheta, form.maxTheta)
    /\ Within(option.vega, form.minVega, form.maxVega)
    /\ Within(option.volume, form.minVolume, Blank)
    /\ Within(option.openInterest, form.minOpenInterest, Blank)
    /\ Within(expData.days_to_expiry, Blank, form.daysFilter)
    /\ (form.atmFilter = "atm" => Abs(option.strike - currentPrice) * 10 <= currentPrice)

\* The same for a row of the options page, delta taken as that page takes it.
SatisfiesOD(option, form) ==
    /\ Within(Abs(option.delta), form.deltaMin, form.deltaMax)
    /\ Within(option.gamma, form.gammaMin, form.gammaMax)
    /\ Within(option.theta, form.thetaMin, form.thetaMax)
    /\ Within(option.vega, form.vegaMin, form.vegaMax)
    /\ Within(option.days_to_exp, form.daysMin, form.daysMax)
    /\ Within(option.impliedVolatility, form.ivMin, form.ivMax)
    /\ Within(option.volume, form.volumeMin, Blank)
    /\ (form.atmOnly => Abs(option.strike - option.current_price) * 20
                            <= option.current_price)
    /\ (form.optionType = "calls" => option.type = "Call")
    /\ (form.optionType = "puts" => option.type = "Put")

\* The groups of expiration exp that the page shows for a ticker.
ShownGroups(ticker, exp) ==
    SelectSeq(page.filteredData[ticker].expirations, LAMBDA g : g.exp = exp)

ShownCalls(ticker, exp) ==
    IF ShownGroups(ticker, exp) = <<>> THEN <<>> ELSE ShownGroups(ticker, exp)[1].calls

ShownPuts(ticker, exp) ==
    IF ShownGroups(ticker, exp) = <<>> THEN <<>> ELSE ShownGroups(ticker, exp)[1].puts

Analysed == {t \in DOMAIN page.rawData : ~IsError(page.rawData[t])}

RawGroups(ticker) ==
    {page.rawData[ticker].expirations[i] :
        i \in 1..Len(page.rawData[ticker].expirations)}

SatisfyingOf(options, expData, ticker) ==
    SelectSeq(options, LAMBDA o : Satisfies(o, expData,
                                            page.rawData[ticker].current_price,
                                            page.form))

\* C18: a contract is shown after filtering iff it satisfies every bound
\* present in the fields, whatever the bound's value (0 and negative values
\* too), comparisons inclusive; an empty field rejects nothing.
C18_KeptIffWithinBounds ==
    HasFiltered =>
        IF variant = "stock"
        THEN \A t \in Analysed : \A g \in RawGroups(t) :
                /\ ShownCalls(t, g.exp) = SatisfyingOf(g.calls, g, t)
                /\ ShownPuts(t, g.exp) = SatisfyingOf(g.puts, g, t)
        ELSE page.filteredData
                = SelectSeq(page.rawData, LAMBDA o : SatisfiesOD(o, page.form))

\* The contract passes the page's per-contract test, its expiration's days
\* included.
Survives(option, expData, ticker) ==
    /\ ~DaysSkipped(expData, ReadFilters(page.form))
    /\ filterOption(option, ReadFilters(page.form), page.rawData[ticker].current_price)

HasSurvivor(expData, ticker) ==
    \/ \E i \in 1..Len(expData.calls) : Survives(expData.calls[i], expData, ticker)
    \/ \E i \in 1..Len(expData.puts) : Survives(expData.puts[i], expData, ticker)

\* C19: after filtering, an expiration is shown iff one of its calls or puts
\* passed the per-contract test, and no shown expiration has both lists empty.
C19_GroupIffSurvivor ==
    (HasFiltered /\ variant = "stock") =>
        \A t \in Analysed :
            /\ \A g \in RawGroups(t) :
                   ShownGroups(t, g.exp) # <<>> <=> HasSurvivor(g, t)
            /\ \A i \in 1..Len(page.filteredData[t].expirations) :
                   \/ Len(page.filteredData[t].expirations[i].calls) > 0
                   \/ Len(page.filteredData[t].expirations[i].puts) > 0

\* A single call at the money with volume 0, filtered with minVolume = 50:
\* its expiration is not shown.
C19_Witness ==
    /\ HasFiltered
    /\ variant = "stock"
    /\ page.rawData = "AAPL" :> TickerData(100, <<Group(30, 30, <<AtmCall>>, <<>>)>>)
    /\ page.form = [ResetForm EXCEPT !.minVolume = Num(50)]
    /\ page.filteredData["AAPL"].expirations = <<>>

LowerFields ==
    {"minDelta", "minGamma", "minTheta", "minVega", "minVolume", "minOpenInterest",
     "deltaMin", "gammaMin", "thetaMin", "vegaMin", "daysMin", "ivMin", "volumeMin"}

UpperFields ==
    {"maxDelta", "maxGamma", "maxTheta", "maxVega", "daysFilter",
     "deltaMax", "gammaMax", "thetaMax", "vegaMax", "daysMax", "ivMax"}

\* Both bounds of one field at once: the tighter one, or the one present.
BothBounds(name, a, b) ==
    IF name \in LowerFields \cup UpperFields
    THEN IF ~IsNum(a) THEN b
         ELSE IF ~IsNum(b) THEN a
         ELSE IF (name \in LowerFields) = (a.v >= b.v) THEN a ELSE b
    ELSE IF name = "atmFilter" THEN (IF a = "atm" THEN a ELSE b)
    ELSE IF name = "atmOnly" THEN (a \/ b)
    ELSE (IF a = "both" THEN b ELSE a)

\* The filter that asks for what f1 asks and what f2 asks.
Conjunction(f1, f2) == [name \in DOMAIN f1 |-> BothBounds(name, f1[name], f2[name])]

\* The contract kinds of the two filters can be asked for together.
Compatible(f1, f2) ==
    "optionType" \in DOMAIN f1
        => f1.optionType = f2.optionType \/ "both" \in {f1.optionType, f2.optionType}

\* C20: filtering with the fields as they were and then, on the result, with
\* the fields as they are, shows what one pass with the conjunction of the
\* two shows.
C20_SequentialIsConjunction ==
    (HasFiltered /\ Compatible(page.previous, page.form)) =>
        Filtered(variant, Filtered(variant, page.rawData, page.previous), page.form)
            = Filtered(variant, page.rawData, Conjunction(page.previous, page.form))

----------------------------------------------------------------------------
(* Further properties of the analyzer, under Spec.                         *)

Ascending(rows) ==
    \A i \in 1..Len(rows) : \A j \in 1..Len(rows) :
        i < j => rows[i].strike <= rows[j].strike

\* C22: in every expiration group of a returned snapshot, the calls and the
\* puts are each in ascending order of strike, whatever order the provider
\* gave the rows in.
C22_StrikeAscending ==
    last.kind \in {"miss", "hit"} =>
        \A i \in 1..Len(last.result.expirations) :
            /\ Ascending(last.result.expirations[i].calls)
            /\ Ascending(last.result.expirations[i].puts)

----------------------------------------------------------------------------
(* Further properties of the filters, under FilterSpec.                    *)

\* The fields with the at-the-money toggle switched off.
ToggleOff(form) ==
    IF variant = "stock" THEN [form EXCEPT !.atmFilter = "all"]
    ELSE [form EXCEPT !.atmOnly = FALSE]

ToggleOn(form) == form # ToggleOff(form)

GroupsIn(data, ticker, exp) ==
    SelectSeq(data[ticker].expirations, LAMBDA g : g.exp = exp)

CallsIn(data, ticker, exp) ==
    IF GroupsIn(data, ticker, exp) = <<>> THEN <<>> ELSE GroupsIn(data, ticker, exp)[1].calls

PutsIn(data, ticker, exp) ==
    IF GroupsIn(data, ticker, exp) = <<>> THEN <<>> ELSE GroupsIn(data, ticker, exp)[1].puts

\* The rows within 5% of the spot, the range the pages highlight.
AtTheMoney(options, currentPrice) ==
    SelectSeq(options, LAMBDA o : isATM(o, currentPrice))

\* C23: with the at-the-money toggle on, the contracts shown are those that
\* the same fields with the toggle off would show and whose strike is within
\* 5% of the spot (bound inclusive), the range that is highlighted; with the
\* toggle off the strike rejects nothing.
C23_AtmThreshold ==
    (HasFiltered /\ ToggleOn(page.form)) =>
        LET off == Filtered(variant, page.rawData, ToggleOff(page.form))
        IN IF variant = "stock"
           THEN \A t \in Analysed : \A g \in RawGroups(t) :
                   /\ ShownCalls(t, g.exp)
                        = AtTheMoney(CallsIn(off, t, g.exp), page.rawData[t].current_price)
                   /\ ShownPuts(t, g.exp)
                        = AtTheMoney(PutsIn(off, t, g.exp), page.rawData[t].current_price)
           ELSE page.filteredData
                   = SelectSeq(off, LAMBDA o : isATM(o, o.current_price))

----------------------------------------------------------------------------
(* Further properties of the cache, under Spec.                            *)

Called == ncalls' = ncalls + 1

\* The entry of key is older than the ttl at time t.
Stale(key, t) == key \in DOMAIN cache_timestamp /\ t - cache_timestamp[key] >= cache_duration

\* C24: no step removes a key from the cache or its timestamps; an entry
\* changes only when a call for its key made a successful analysis, which
\* stores its result; a call that finds an entry older than the ttl does not
\* return it as a hit.
C24_NoEviction ==
    [][/\ DOMAIN data_cache \subseteq DOMAIN data_cache'
       /\ DOMAIN cache_timestamp \subseteq DOMAIN cache_timestamp'
       /\ \A key \in DOMAIN data_cache :
             (\/ data_cache'[key] # data_cache[key]
              \/ cache_timestamp'[key] # cache_timestamp[key])
                => /\ Called
                   /\ last'.kind = "miss"
                   /\ last'.key = key
                   /\ data_cache'[key] = last'.result
       /\ (Called /\ Stale(last'.key, clock)) => last'.kind # "hit"]_vars

\* An entry older than the ttl is still stored after another key was analysed.
C24_Witness ==
    /\ ncalls = 2
    /\ last.kind = "miss"
    /\ \E key \in DOMAIN data_cache : key # last.key /\ Stale(key, clock)

\* C25: a call answered from the cache asks the provider nothing and leaves
\* every stored snapshot and every timestamp as it was, so reading does not
\* prolong the entry's life.
C25_HitHasNoEffect ==
    [][(Called /\ last'.kind = "hit")
          => /\ last'.log = <<>>
             /\ data_cache' = data_cache
             /\ cache_timestamp' = cache_timestamp
             /\ clock' = clock
             /\ last'.result = data_cache[last'.key]]_vars

\* A hit some time after the entry was made.
C25_Witness ==
    /\ last.kind = "hit"
    /\ last.t_check > cache_timestamp[last.key]

\* C26: a call that returns no snapshot (no expirations, or an exception)
\* leaves every stored snapshot and every timestamp as it was and returns
\* None, also when the entry of its key is older than the ttl.
C26_FailureLeavesCache ==
    [][(Called /\ last'.kind = "fail")
          => /\ data_cache' = data_cache
             /\ cache_timestamp' = cache_timestamp
             /\ last'.result = NoneResult]_vars

\* The refresh of an expired entry failed and the entry is still there.
C26_Witness ==
    /\ last.kind = "fail"
    /\ last.result = NoneResult
    /\ last.key \in DOMAIN data_cache
    /\ Stale(last.key, last.t_check)

\* The call asked for the chains of its selected expirations and every one
\* of them was lost.
AllChainsFailed(call) ==
    /\ call.kind = "miss"
    /\ Fetched(call.log) # {}
    /\ \A exp \in Fetched(call.log) :
          ExpirationRaises(call.scenario, exp, call.result.current_price,
                           variant = "stock")

\* The cache holds for key a snapshot without expirations, younger than the
\* ttl at time t.
FreshEmpty(key, t) ==
    /\ CacheHit(data_cache, cache_timestamp, key, t)
    /\ data_cache[key].expirations = <<>>

\* C27: when the chain of every selected expiration fails, the call returns
\* a snapshot with no expirations and stores it with the time; while that
\* entry is younger than 300 s every call for its key returns that same
\* snapshot and asks the provider nothing.
C27_EmptySnapshotCached ==
    [][Called =>
          /\ AllChainsFailed(last')
                => /\ last'.result.expirations = <<>>
                   /\ last'.key \in DOMAIN data_cache'
                   /\ data_cache'[last'.key] = last'.result
                   /\ cache_timestamp'[last'.key] = clock'
          /\ FreshEmpty(last'.key, clock)
                => /\ last'.kind = "hit"
                   /\ last'.result = data_cache[last'.key]
                   /\ last'.log = <<>>]_vars

\* The second call for a key got the empty snapshot of the first from the cache.
C27_Witness ==
    /\ ncalls = 2
    /\ last.kind = "hit"
    /\ last.result.expirations = <<>>
    /\ last.log = <<>>

----------------------------------------------------------------------------
(* Concurrent calls of get_options_data for one key, with the loop over    *)
(* the selected expirations taken one expiration at a time; the clock      *)
(* stands still.                                                           *)

MaxFill == 3

FillThreads == 1..MaxFill

FillScenarios ==
    { Reference,
      [Reference EXCEPT !.failing = {90}],
      [Reference EXCEPT !.options = <<>>] }

FillIdle ==
    [pc |-> "idle", ticker |-> "", key |-> <<>>, result |-> NoneResult,
     kind |-> "none", seen |-> 0, got |-> 0,
     sc |-> Reference, date |-> 0, pending |-> <<>>]

FillInit ==
    /\ data_cache = <<>>
    /\ cache_timestamp = <<>>
    /\ clock \in StartTimes
    /\ ticks = 0
    /\ ncalls = 0
    /\ last = NoCall
    /\ variant = "stock"
    /\ world = QuietWorld
    /\ api = NoRequest
    /\ threads = [th \in FillThreads |-> FillIdle]
    /\ written = NothingWritten
    /\ calc = NoCalc
    /\ twin = NoTwin
    /\ page = NoPage

\* A request thread enters get_options_data('AAPL').
Enter(th) ==
    /\ threads[th].pc = "idle"
    /\ threads' = [threads EXCEPT ![th] =
                      [FillIdle EXCEPT !.pc = "check", !.ticker = "AAPL",
                                       !.key = cache_key("AAPL", DefaultTargetDays)]]
    /\ UNCHANGED <<data_cache, cache_timestamp, clock, ticks, ncalls, last, variant,
                   world, api, written, calc, page, twin>>

\* The snapshot as it is when the loop over target_expirations begins.
NewResult(ticker, sc) ==
    [ticker |-> ticker, current_price |-> ResolvePrice(sc),
     risk_free_rate |-> get_risk_free_rate(sc), expirations |-> <<>>]

\* The thread after the provider gave price and expirations: it has failed,
\* or it holds a new result and the expirations it selected.
Started(thread, sc, now) ==
    IF sc.info_raises \/ NoExpirations(sc.options)
    THEN [thread EXCEPT !.pc = "returned", !.kind = "fail", !.sc = sc]
    ELSE [thread EXCEPT !.pc = "fill", !.sc = sc, !.date = now,
                        !.result = NewResult(thread.ticker, sc),
                        !.pending = TargetExpirations(sc.options, DefaultTargetDays,
                                                       now)]

\* Mutant: the new result is put in the cache before the loop fills it.
StartFetchPublishing(th) ==
    /\ threads[th].pc = "fetch"
    /\ \E sc \in FillScenarios :
          /\ threads' = [threads EXCEPT ![th] = Started(threads[th], sc, clock)]
          /\ IF threads'[th].pc = "fill"
             THEN /\ data_cache' = StoreSnapshot(data_cache, threads[th].key,
                                                 threads'[th].result)
                  /\ written' = [written EXCEPT !.data = (threads[th].key :> th) @@ @]
             ELSE UNCHANGED <<data_cache, written>>
    /\ UNCHANGED <<cache_timestamp, clock, ticks, ncalls, last, variant, world, api,
                   calc, page, twin>>

\* Lines 123-161: price, expirations, selection, rate, result = {...}.
StartFetch(th) ==
    /\ threads[th].pc = "fetch"
    /\ \E sc \in FillScenarios :
          threads' = [threads EXCEPT ![th] = Started(threads[th], sc, clock)]
    /\ UNCHANGED <<data_cache, cache_timestamp, clock, ticks, ncalls, last, variant,
                   world, api, written, calc, page, twin>>

\* The thread after one pass of the loop: the group is added to result, or
\* the expiration is skipped.
Filled(thread) ==
    [thread EXCEPT
        !.result = [@ EXCEPT !.expirations =
                       @ \o ExpirationLoop(thread.sc, <<Head(thread.pending)>>,
                                           thread.result.current_price,
                                           thread.result.risk_free_rate,
                                           thread.date, TRUE)],
        !.pending = Tail(@),
        !.pc = IF Tail(thread.pending) = <<>> THEN "store_data" ELSE "fill"]

\* One pass of "for exp_date in target_expirations".
ProcessExpiration(th) ==
    /\ threads[th].pc = "fill"
    /\ threads' = [threads EXCEPT ![th] = Filled(threads[th])]
    /\ UNCHANGED <<data_cache, cache_timestamp, clock, ticks, ncalls, last, variant,
                   world, api, written, calc, page, twin>>

FillNext ==
    \/ \E th \in FillThreads : Enter(th)
    \/ \E th \in FillThreads : CheckCache(th)
    \/ \E th \in FillThreads : ReturnCached(th)
    \/ \E th \in FillThreads : StartFetch(th)
    \/ \E th \in FillThreads : ProcessExpiration(th)
    \/ \E th \in FillThreads : StoreData(th)
    \/ \E th \in FillThreads : StoreTime(th)

FillSpec == FillInit /\ [][FillNext]_vars

\* The snapshot the call of thread th builds once its loop is over.
Complete(th) ==
    Analyze(threads[th].ticker, DefaultTargetDays, threads[th].sc, threads[th].date,
            TRUE).result

\* C28: a snapshot is in the cache only once the call that built it is past
\* its loop over the selected expirations, and it is the finished snapshot;
\* so a call answered from the cache never obtains a snapshot that another
\* call is still filling.
C28_OnlyFinishedVisible ==
    /\ \A key \in DOMAIN data_cache :
          /\ threads[written.data[key]].pc \in {"store_time", "returned"}
          /\ threads[written.data[key]].pending = <<>>
          /\ data_cache[key] = Complete(written.data[key])
    /\ \A th \in FillThreads :
          (threads[th].pc = "returned" /\ threads[th].kind = "hit")
              => \E w \in FillThreads \ {th} : threads[th].result = Complete(w)

\* One call was answered from the cache while another is inside its loop.
C28_Witness ==
    \E th \in FillThreads, other \in FillThreads :
        /\ threads[th].pc = "returned"
        /\ threads[th].kind = "hit"
        /\ threads[other].pc = "fill"
        /\ threads[other].result.expirations # <<>>

----------------------------------------------------------------------------
(* The two pages' delta bounds compared, under FilterSpec.                 *)

\* The rows of a stock page's data as options_dashboard.py would list them.
FlatSet(data) ==
    UNION { UNION { {FlatRow(g.calls[i], "Call", data[t].current_price, g.days_to_expiry) :
                        i \in 1..Len(g.calls)}
                    \cup {FlatRow(g.puts[i], "Put", data[t].current_price,
                                  g.days_to_expiry) : i \in 1..Len(g.puts)} :
                    g \in {data[t].expirations[j] : j \in 1..Len(data[t].expirations)} } :
            t \in {u \in DOMAIN data : ~IsError(data[u])} }

\* Stock page fields with the delta bounds lo, hi and no other restriction.
DeltaOnly(lo, hi) ==
    [ResetForm EXCEPT !.minDelta = lo, !.maxDelta = hi, !.minGamma = Blank,
                      !.maxGamma = Blank, !.minTheta = Blank, !.maxTheta = Blank,
                      !.minVega = Blank, !.maxVega = Blank, !.minVolume = Blank,
                      !.minOpenInterest = Blank]

DeltaOnlyOD(lo, hi) == [ClearedForm EXCEPT !.deltaMin = lo, !.deltaMax = hi]

IsPut(row) == row.type = "Put"

\* What each page keeps of the same data under the same delta bounds.
KeptByStock(data, lo, hi) == FlatSet(applyFilters(data, DeltaOnly(lo, hi)))

KeptByOD(data, lo, hi) ==
    {row \in FlatSet(data) : KeepOD(row, ReadFiltersOD(DeltaOnlyOD(lo, hi)))}

PutsInRange(data, lo, hi) ==
    {row \in FlatSet(data) : IsPut(row) /\ Within(Abs(row.delta), lo, hi)}

\* C29: on the stock page a minimum delta above 0 leaves no put (the bound
\* is compared with the signed delta); options_dashboard.py's filter, given
\* the same data and the same delta bounds, keeps exactly the puts whose
\* absolute delta is in the range, so the two keep different sets whenever
\* there is such a put.
C29_DeltaPolicyDiffers ==
    (HasFiltered /\ variant = "stock" /\ IsNum(page.form.minDelta)
        /\ page.form.minDelta.v > 0) =>
        LET lo == page.form.minDelta
            hi == page.form.maxDelta
        IN /\ \A t \in Analysed : \A g \in RawGroups(t) : ShownPuts(t, g.exp) = <<>>
           /\ {row \in KeptByStock(page.rawData, lo, hi) : IsPut(row)} = {}
           /\ {row \in KeptByOD(page.rawData, lo, hi) : IsPut(row)}
                 = PutsInRange(page.rawData, lo, hi)
           /\ PutsInRange(page.rawData, lo, hi) # {}
                 => KeptByStock(page.rawData, lo, hi) # KeptByOD(page.rawData, lo, hi)

\* Conservative Defaults on the stock page, with a put of delta -0.48 in the data.
C29_Witness ==
    /\ HasFiltered
    /\ variant = "stock"
    /\ page.form = ConservativeForm
    /\ PutsInRange(page.rawData, Num(30), Num(70)) # {}

----------------------------------------------------------------------------
(* demo_dashboard.py's analyzer run side by side with                      *)
(* stock_options_dashboard.py's: the same calls, the same provider         *)
(* answers, the same clock.                                                *)

EquivInit ==
    /\ data_cache = <<>>
    /\ cache_timestamp = <<>>
    /\ clock \in StartTimes
    /\ ticks = 0
    /\ ncalls = 0
    /\ last = NoCall
    /\ variant = "stock"
    /\ world = QuietWorld
    /\ api = NoRequest
    /\ threads = NoThreads
    /\ written = NothingWritten
    /\ calc = NoCalc
    /\ twin = NoTwin
    /\ page = NoPage

\* The demo analyzer after a call that returned r.
TwinReturned(r) ==
    twin' = [cache |-> r.cache, stamps |-> r.stamps, last |-> r.call]

\* Both analyzers are given the same call.
BothGetOptionsData(ticker, target_days, sc, d) ==
    /\ ncalls < MaxCalls
    /\ ncalls' = ncalls + 1
    /\ Returned(get_options_data(data_cache, cache_timestamp, clock, ticker,
                                 target_days, sc, d, TRUE))
    /\ TwinReturned(get_options_data(twin.cache, twin.stamps, clock, ticker,
                                     target_days, sc, d, FALSE))
    /\ UNCHANGED <<ticks, variant, world, api, threads, written, calc, page>>

EquivNext ==
    \/ \E step \in ClockSteps : Tick(step)
    \/ \E ticker \in Tickers, target_days \in TargetDayLists, sc \in Scenarios,
          d \in Elapsed :
          BothGetOptionsData(ticker, target_days, sc, d)

EquivSpec == EquivInit /\ [][EquivNext]_vars

WithoutMoneyness(rows) == [i \in 1..Len(rows) |-> [rows[i] EXCEPT !.moneyness = Absent]]

\* A result with the 'moneyness' field of every contract left out.
Comparable(result) ==
    IF result = NoneResult THEN result
    ELSE [result EXCEPT !.expirations =
             [i \in 1..Len(@) |-> [@[i] EXCEPT !.calls = WithoutMoneyness(@),
                                               !.puts = WithoutMoneyness(@)]]]

\* C30: side by side, the two analyzers decide hit, miss and failure alike,
\* hold the same keys with the same timestamps, and return the same results
\* apart from the contracts' 'moneyness' field.
C30_DemoEquivalent ==
    /\ twin.last.kind = last.kind
    /\ DOMAIN twin.cache = DOMAIN data_cache
    /\ twin.stamps = cache_timestamp
    /\ Comparable(twin.last.result) = Comparable(last.result)
    /\ \A key \in DOMAIN data_cache :
          Comparable(twin.cache[key]) = Comparable(data_cache[key])

====
